---- MODULE Spec2Model ----
(***************************************************************************)
(* State-machine model of the roulette strategy simulator:                 *)
(*   - the bet resolver (isWin, calculateDetailedOutcomes),                *)
(*   - the simulation loop runSimulation with its recordStep helper,       *)
(*   - the playback statistics displayedStats of the application.          *)
(* One TLA+ step is one spin of the simulation (one call of recordStep     *)
(* together with the bookkeeping that follows it in the same loop          *)
(* iteration), or one loop entry / loop exit that records nothing.         *)
(***************************************************************************)
EXTENDS Integers, Sequences, FiniteSets, TLC

(***************************************************************************)
(* Pockets.  SpinResult.number is `number | '00'`; the string '00' is      *)
(* represented by the value DoubleZero, which is no number of the wheel.   *)
(***************************************************************************)
DoubleZero == -1

RedNumbers == {1, 3, 5, 7, 9, 12, 14, 16, 18, 19, 21, 23, 25, 27, 30, 32, 34, 36}

\* NUMBER_COLORS[key]: '0' and '00' are green, 1..36 by the fixed table.
NUMBER_COLORS(key) ==
    IF key = 0 \/ key = DoubleZero THEN "green"
    ELSE IF key \in RedNumbers THEN "red"
    ELSE "black"

\* Faulty variant of getResultValue: 00 is taken for the single zero.
getResultValueAsZero(resultNum) == IF resultNum = DoubleZero THEN 0 ELSE resultNum

\* Helper: normalize 00 to 37 for internal numeric comparison.
getResultValue(resultNum) == IF resultNum = DoubleZero THEN 37 ELSE resultNum

\* String.prototype.toLowerCase on the labels that occur; "" is an absent label
\* (bet.label?.toLowerCase() is then undefined and equals no colour).
toLowerCase(label) ==
    CASE label \in {"Red", "RED", "red"} -> "red"
      [] label \in {"Black", "BLACK", "black"} -> "black"
      [] label \in {"Green", "GREEN", "green"} -> "green"
      [] label = "Even" -> "even"
      [] label = "Odd" -> "odd"
      [] OTHER -> label

\* Array.prototype.includes on a numbers array.
includes(numbers, v) == \E i \in 1..Len(numbers) : numbers[i] = v

\* Faulty variant of isZeroOrDoubleZero: only the single zero is tested.
isZeroOnly(resultVal) == resultVal = 0

isZeroOrDoubleZero(resultVal) == (resultVal = 0 \/ resultVal = 37)

\* Faulty variant of BasketNumbers: the numbers of the street 1-2-3 with 0.
BasketNumbersWithoutDoubleZero == {0, 1, 2, 3}

\* The five numbers of the basket: 0, 00 (37), 1, 2, 3.
BasketNumbers == {0, 37, 1, 2, 3}

\* Check if a specific bet wins based on the spin result.
isWin(resultNum, bet) ==
    LET resultVal == getResultValue(resultNum)
    IN  CASE bet.type = "BASKET" -> resultVal \in BasketNumbers
          [] bet.type = "RED_BLACK" ->
                IF isZeroOrDoubleZero(resultVal) THEN FALSE
                ELSE NUMBER_COLORS(resultNum) = toLowerCase(bet.label)
          [] bet.type = "EVEN_ODD" ->
                IF isZeroOrDoubleZero(resultVal) THEN FALSE
                ELSE IF bet.label = "Even" THEN resultVal % 2 = 0
                ELSE IF bet.label = "Odd" THEN resultVal % 2 # 0
                ELSE FALSE
          [] bet.type = "HIGH_LOW" ->
                IF isZeroOrDoubleZero(resultVal) THEN FALSE
                ELSE IF bet.label = "1-18" THEN resultVal >= 1 /\ resultVal <= 18
                ELSE IF bet.label = "19-36" THEN resultVal >= 19 /\ resultVal <= 36
                ELSE FALSE
          [] bet.type = "DOZEN" ->
                IF isZeroOrDoubleZero(resultVal) THEN FALSE
                ELSE IF bet.label = "1st 12" THEN resultVal >= 1 /\ resultVal <= 12
                ELSE IF bet.label = "2nd 12" THEN resultVal >= 13 /\ resultVal <= 24
                ELSE IF bet.label = "3rd 12" THEN resultVal >= 25 /\ resultVal <= 36
                ELSE FALSE
          [] bet.type = "COLUMN" ->
                IF isZeroOrDoubleZero(resultVal) THEN FALSE
                ELSE IF Len(bet.numbers) > 0 THEN includes(bet.numbers, resultVal)
                ELSE IF bet.label = "2 to 1 (Bot)" THEN resultVal % 3 = 1
                ELSE IF bet.label = "2 to 1 (Mid)" THEN resultVal % 3 = 2
                ELSE IF bet.label = "2 to 1 (Top)"
                     THEN resultVal # 0 /\ resultVal # 37 /\ resultVal % 3 = 0
                ELSE FALSE
          [] OTHER -> includes(bet.numbers, resultVal)

\* Faulty variant of PayoutRatio: the ratios of STREET and LINE one too high
\* (the number of pockets covered taken for the divisor).
PayoutRatioOffByOne(type) ==
    CASE type = "STRAIGHT" -> 35
      [] type = "SPLIT" -> 17
      [] type = "STREET" -> 12
      [] type = "CORNER" -> 8
      [] type = "BASKET" -> 6
      [] type = "LINE" -> 6
      [] type = "COLUMN" -> 2
      [] type = "DOZEN" -> 2
      [] OTHER -> 1

\* The payout ratio switch of calculateDetailedOutcomes.
PayoutRatio(type) ==
    CASE type = "STRAIGHT" -> 35
      [] type = "SPLIT" -> 17
      [] type = "STREET" -> 11
      [] type = "CORNER" -> 8
      [] type = "BASKET" -> 6
      [] type = "LINE" -> 5
      [] type = "COLUMN" -> 2
      [] type = "DOZEN" -> 2
      [] type \in {"RED_BLACK", "EVEN_ODD", "HIGH_LOW"} -> 1
      [] OTHER -> 1

\* Faulty variant of BetPayout: a losing wager returns minus its stake (the net
\* of the wager taken for its gross payout).
BetPayoutLossNegative(bet, win) ==
    IF win THEN bet.amount + (bet.amount * PayoutRatio(bet.type)) ELSE 0 - bet.amount

\* Return = stake + winnings (stake * ratio) on a win, 0 on a loss.
BetPayout(bet, win) ==
    IF win THEN bet.amount + (bet.amount * PayoutRatio(bet.type)) ELSE 0

\* outcomes.push({bet, won: win, payout, net: payout - bet.amount})
OutcomeRecord(bet, win, payout) ==
    [bet |-> bet, won |-> win, payout |-> payout, net |-> payout - bet.amount]

OutcomeOf(bet, win) == OutcomeRecord(bet, win, BetPayout(bet, win))

\* One element of the outcomes array.
BetOutcome(bet, resultNum) == OutcomeOf(bet, isWin(resultNum, bet))

RECURSIVE SumPayout(_)
SumPayout(outcomes) ==
    IF outcomes = <<>> THEN 0
    ELSE outcomes[1].payout + SumPayout(Tail(outcomes))

DetailedOutcomes(outcomes) ==
    [totalPayout |-> SumPayout(outcomes), outcomes |-> outcomes]

\* Calculate detailed payout for a set of bets.
calculateDetailedOutcomes(bets, result) ==
    DetailedOutcomes([i \in 1..Len(bets) |-> BetOutcome(bets[i], result.number)])

\* bets.reduce((sum, b) => sum + b.amount, 0)
RECURSIVE SumAmounts(_)
SumAmounts(bets) ==
    IF bets = <<>> THEN 0
    ELSE bets[1].amount + SumAmounts(Tail(bets))

(***************************************************************************)
(* Strategy trees.  A tree is a sequence of nodes; a node reference is an  *)
(* index into it, Null for `null`.  The root is the node at RootId, and a  *)
(* child reference equal to RootId is the back-edge to the root object.    *)
(* Optional fields that are absent (undefined) hold the falsy value of     *)
(* their type (0, ""); an absent `bets` has betsDefined = FALSE, because   *)
(* the code distinguishes an absent list from an empty one (!node.bets).   *)
(***************************************************************************)
Null == 0
RootId == 1

PlacedBet(type, numbers, amount, label) ==
    [type |-> type, numbers |-> numbers, amount |-> amount, label |-> label]

Red(amount) == PlacedBet("RED_BLACK", <<>>, amount, "Red")
Black(amount) == PlacedBet("RED_BLACK", <<>>, amount, "Black")

StrategyNode(type, betsDefined, bets, win, loss) ==
    [type |-> type, betsDefined |-> betsDefined, bets |-> bets,
     value |-> 0, condition |-> "", postWaitAction |-> "",
     martingaleLimitType |-> "", martingaleLimitValue |-> 0,
     repeatUntilType |-> "", repeatUntilValue |-> 0,
     children |-> [win |-> win, loss |-> loss]]

NoBets(type, win, loss) == StrategyNode(type, FALSE, <<>>, win, loss)
WithBets(type, bets, win, loss) == StrategyNode(type, TRUE, bets, win, loss)

Martingale(bets, limitType, limitValue, win, loss) ==
    [StrategyNode("martingale", bets # <<>>, bets, win, loss) EXCEPT
        !.martingaleLimitType = limitType, !.martingaleLimitValue = limitValue]

RepeatUntil(bets, repeatType, repeatValue, win, loss) ==
    [StrategyNode("repeat_until", bets # <<>>, bets, win, loss) EXCEPT
        !.repeatUntilType = repeatType, !.repeatUntilValue = repeatValue]

WaitSpins(betsDefined, bets, value, postWaitAction, win, loss) ==
    [StrategyNode("wait_spins", betsDefined, bets, win, loss) EXCEPT
        !.value = value, !.postWaitAction = postWaitAction]

WaitCondition(bets, condition, win, loss) ==
    [StrategyNode("wait_condition", TRUE, bets, win, loss) EXCEPT
        !.condition = condition]

\* The strategy trees the runs are explored on.
Trees ==
    << \* 1: flat bet, root self-loop on win, progression chain on loss
       << WithBets("start_immediately", <<Red(5)>>, RootId, 2),
          NoBets("double", 3, 4),
          NoBets("reset", Null, Null),
          NoBets("triple", Null, Null) >>,
       \* 2: unit progressions after a loss, a red/black pair (always a
       \*    push) after a win
       << WithBets("custom_bet", <<Red(5)>>, 5, 2),
          NoBets("add_unit", 3, 3),
          NoBets("subtract_unit", 4, 4),
          WithBets("same_bet", <<>>, Null, Null),
          WithBets("custom_bet", <<Red(5), Black(5)>>, Null, Null) >>,
       \* 3: martingale until bankrupt at the root, no children
       << Martingale(<<Red(5)>>, "until_bankrupt", 0, Null, Null) >>,
       \* 4: martingale with a spin count, explicit wagers / reset after it
       << Martingale(<<Red(5)>>, "spin_count", 2, 2, 3),
          WithBets("custom_bet", <<Black(5)>>, Null, Null),
          NoBets("reset", Null, Null) >>,
       \* 5: martingale with a profit target, entered from a flat bet
       << WithBets("start_immediately", <<Red(5)>>, 2, 2),
          Martingale(<<>>, "profit_target", 10, 3, Null),
          NoBets("double", Null, Null) >>,
       \* 6: repeat_until by spins, then by wins
       << RepeatUntil(<<Red(5)>>, "spins", 2, 2, Null),
          RepeatUntil(<<>>, "wins", 1, Null, Null) >>,
       \* 7: repeat_until by profit target, then by loss limit
       << RepeatUntil(<<Red(5)>>, "profit_target", 5, 2, Null),
          RepeatUntil(<<Black(5)>>, "loss_limit", 5, Null, Null) >>,
       \* 8: wait_spins at the root
       << WaitSpins(TRUE, <<Red(5)>>, 2, "double", Null, Null) >>,
       \* 9: wait_condition at the root
       << WaitCondition(<<Red(5)>>, "red", Null, Null) >>,
       \* 10: wait_spins children with and without a post-wait action
       << WithBets("start_immediately", <<Red(5)>>, 2, 3),
          WaitSpins(FALSE, <<>>, 1, "double", Null, Null),
          WaitSpins(TRUE, <<Black(5)>>, 2, "", Null, Null) >>,
       \* 11: a root without a wager list
       << NoBets("start_immediately", Null, Null) >>,
       \* 12: martingale with a spin count of 0 (the limit-value field left at 0)
       << Martingale(<<Red(5)>>, "spin_count", 0, Null, Null) >>,
       \* 13: martingale with a spin count at a root that loops to itself on a
       \*     win; its loss child inherits the base wagers and the multiplier
       << Martingale(<<Red(5)>>, "spin_count", 3, RootId, 2),
          NoBets("same_bet", Null, Null) >>,
       \* 14: modifier children as the builder creates them, with an empty
       \*     wager list (bets: [])
       << WithBets("start_immediately", <<Red(5)>>, 2, 3),
          WithBets("double", <<>>, Null, Null),
          WithBets("add_unit", <<>>, Null, Null) >>,
       \* 15: a wait_spins node entered on exit from a martingale sequence
       << Martingale(<<Red(5)>>, "until_bankrupt", 0, 2, 2),
          WaitSpins(FALSE, <<>>, 1, "", Null, Null) >>,
       \* 16: a wait_condition node entered as a child
       << WithBets("start_immediately", <<Red(5)>>, 2, 2),
          WaitCondition(<<Black(5)>>, "red", Null, Null) >>,
       \* 17: three wagers, two of them of one unit
       << WithBets("custom_bet", <<Red(20), Black(1), Black(1)>>, Null, Null) >>,
       \* 18: repeat_until with its type and value left unset
       << RepeatUntil(<<Red(5)>>, "", 0, Null, Null) >>,
       \* 19: repeat_until for spins with the value field at 0
       << RepeatUntil(<<Red(5)>>, "spins", 0, Null, Null) >>,
       \* 20: a reset node with wagers of its own after a win, subtract_unit
       \*     entered with the multiplier at 1 after a loss
       << WithBets("start_immediately", <<Red(5)>>, 2, 3),
          WithBets("reset", <<Black(5)>>, Null, Null),
          NoBets("subtract_unit", Null, Null) >>
    >>

(***************************************************************************)
(* The strategy builder's validity checks.                                 *)
(***************************************************************************)
\* isNodeValid(node): both branches must be set unless the node is a reset,
\* then the parameters its type needs.
isNodeValid(node) ==
    IF node.type # "reset" /\ (node.children.win = Null \/ node.children.loss = Null)
    THEN FALSE
    ELSE CASE node.type \in {"start_immediately", "custom_bet"} ->
                 node.betsDefined /\ Len(node.bets) > 0
           [] node.type = "wait_spins" -> node.value > 0
           [] node.type = "wait_condition" -> node.condition # ""
           [] node.type = "martingale" ->
                 /\ node.martingaleLimitType # ""
                 /\ ~(node.martingaleLimitType # "until_bankrupt"
                        /\ node.martingaleLimitValue <= 0)
           [] node.type = "repeat_until" ->
                 node.repeatUntilType # "" /\ node.repeatUntilValue > 0
           [] OTHER -> TRUE

\* isBranchComplete(node) with the visited set it shares across the recursion:
\* the result and the visited set after the call.
RECURSIVE isBranchComplete(_, _, _)
isBranchComplete(tree, id, visited) ==
    IF id \in visited THEN [complete |-> TRUE, visited |-> visited]
    ELSE LET node == tree[id]
             seen == visited \cup {id}
         IN  IF node.type = "reset" THEN [complete |-> TRUE, visited |-> seen]
             ELSE IF ~isNodeValid(node) THEN [complete |-> FALSE, visited |-> seen]
             ELSE LET win ==
                          IF node.children.win = Null
                          THEN [complete |-> FALSE, visited |-> seen]
                          ELSE IF node.children.win = RootId
                          THEN [complete |-> TRUE, visited |-> seen]
                          ELSE isBranchComplete(tree, node.children.win, seen)
                      loss ==
                          IF node.type = "martingale"
                             /\ node.martingaleLimitType = "until_bankrupt"
                          THEN [complete |-> TRUE, visited |-> win.visited]
                          ELSE IF node.children.loss = Null
                          THEN [complete |-> FALSE, visited |-> win.visited]
                          ELSE IF node.children.loss = RootId
                          THEN [complete |-> TRUE, visited |-> win.visited]
                          ELSE isBranchComplete(tree, node.children.loss, win.visited)
                  IN  [complete |-> win.complete /\ loss.complete,
                       visited |-> loss.visited]

\* checkStrategyComplete(root)
checkStrategyComplete(tree) == isBranchComplete(tree, RootId, {}).complete

\* Outcomes generateSpin draws from in the explored runs: a red and a black pocket.
SpinNumbers == {1, 2}

MaxSpins == 3
InitialBankrolls == {0, 3, 5, 20}
StopLosses == {0, 15}
TakeProfits == {0, 25}
TableMaxes == {8, 500}

VARIABLES
    initialBankroll, strategy, config,
    bankroll, steps, spinsConsumed,
    wins, losses, maxDrawdown, maxUpside,
    currentWinStreak, currentLossStreak, longestWinStreak, longestLossStreak,
    currentNode, currentBaseBets, currentMultiplier,
    martingaleStepCount, sequenceStartBankroll,
    loopSpins, loopWins, seqStartBankroll,
    w, conditionMet, k,
    pc, stats, haltStats,
    isStrategyComplete,
    viewMode, numSimulations, allResults, allSimResults, currentResultIndex

\* What a run is started with, and the builder's completeness flag for the tree.
\* The application's page, its number of runs and its collected results.
appVars == <<viewMode, numSimulations, allResults, allSimResults, currentResultIndex>>
cfgVars == <<initialBankroll, strategy, config, isStrategyComplete, appVars>>
ledgerVars ==
    <<bankroll, steps, spinsConsumed, wins, losses, maxDrawdown, maxUpside,
      currentWinStreak, currentLossStreak, longestWinStreak, longestLossStreak,
      haltStats>>
cursorVars == <<currentNode, currentBaseBets, currentMultiplier>>
martVars == <<martingaleStepCount, sequenceStartBankroll>>
repeatVars == <<loopSpins, loopWins, seqStartBankroll>>
waitVars == <<w, conditionMet, k>>
vars == <<cfgVars, ledgerVars, cursorVars, martVars, repeatVars, waitVars, pc, stats>>

rootNode == strategy.rootNode[RootId]
NodeAt(id) == strategy.rootNode[id]

\* rootNode.bets || []
RootBets == rootNode.bets

\* roi: ((bankroll - initial) / initial) * 100 as the fraction num/den, 0 if initial is 0.
Roi(final, initial) ==
    IF initial > 0 THEN [num |-> (final - initial) * 100, den |-> initial]
    ELSE [num |-> 0, den |-> 1]

\* The SimulationStats object built from the engine's counters.
SimulationStats(final, total, nWins, nLosses, drawdown, upside, winStreak, lossStreak) ==
    [initialBankroll |-> initialBankroll, finalBankroll |-> final, totalSpins |-> total,
     wins |-> nWins, losses |-> nLosses, maxDrawdown |-> drawdown, maxUpside |-> upside,
     longestWinStreak |-> winStreak, longestLossStreak |-> lossStreak,
     roi |-> Roi(final, initialBankroll)]

\* The value of `stats` while the run has not returned.
NoStats ==
    [initialBankroll |-> 0, finalBankroll |-> 0, totalSpins |-> 0,
     wins |-> 0, losses |-> 0, maxDrawdown |-> 0, maxUpside |-> 0,
     longestWinStreak |-> 0, longestLossStreak |-> 0, roi |-> [num |-> 0, den |-> 1]]

\* The application's result state before any run has returned, with one run
\* asked for.
NoResults ==
    /\ numSimulations = 1
    /\ allResults = <<>> /\ allSimResults = <<>> /\ currentResultIndex = 0

\* The state runSimulation sets up from its arguments before its first loop.
StartOfRun ==
    /\ bankroll = initialBankroll
    /\ steps = <<>>
    /\ currentNode = RootId
    /\ currentBaseBets = RootBets
    /\ currentMultiplier = 1
    /\ spinsConsumed = 0
    /\ wins = 0 /\ losses = 0 /\ maxDrawdown = 0 /\ maxUpside = 0
    /\ currentWinStreak = 0 /\ currentLossStreak = 0
    /\ longestWinStreak = 0 /\ longestLossStreak = 0
    /\ martingaleStepCount = 0 /\ sequenceStartBankroll = 0
    /\ loopSpins = 0 /\ loopWins = 0 /\ seqStartBankroll = 0
    /\ w = 0 /\ conditionMet = FALSE /\ k = 0
    /\ pc = "presim"
    /\ stats = NoStats
    /\ haltStats = <<>>

Init ==
    /\ initialBankroll \in InitialBankrolls
    /\ \E t \in 1..Len(Trees), sl \in StopLosses, tp \in TakeProfits :
          strategy = [rootNode |-> Trees[t], stopLoss |-> sl, takeProfit |-> tp]
    /\ \E ms \in 0..MaxSpins, tm \in TableMaxes :
          config = [maxSpins |-> ms, tableMin |-> 1, tableMax |-> tm]
    /\ isStrategyComplete = checkStrategyComplete(strategy.rootNode)
    /\ viewMode = "simulation" /\ NoResults
    /\ StartOfRun

(***************************************************************************)
(* recordStep: the helper that records one spin atomically.                *)
(***************************************************************************)
MultiplierCeiling == 10000
SafetyCap == 200

\* Generate a spin: the drawn number with its colour.
generateSpin(n) == [number |-> n, color |-> NUMBER_COLORS(n)]

ActionType(tag, x) == [tag |-> tag, x |-> x]

\* Check bankruptcy before processing (unless it's a wait step).
CannotAfford(isWaitStep, betTotal) == ~isWaitStep /\ betTotal > bankroll

\* The value recordStep returns.
RecordStepSuccess(activeBets, isWaitStep) ==
    ~CannotAfford(isWaitStep, SumAmounts(activeBets))

\* net = totalPayout - betTotal
StepNet(totalPayout, betTotal) == totalPayout - betTotal

\* Faulty variant of BankrollAfter: a losing spin is not charged to the bankroll.
BankrollAfterLossFree(before, net) == IF net > 0 THEN before + net ELSE before

\* Bankroll = Previous + (Payout - Cost)
BankrollAfter(before, net) == before + net

\* Faulty variant of StepWon: a push (net 0) is recorded as won.
StepWonOnPush(net) == net >= 0

\* won: strictly based on profit.
StepWon(net) == net > 0

\* 5. Push Log Entry with FULL DETAILS: the SimulationStep object.
SimulationStep(result, betsSnapshot, outcomes, betTotal, totalPayout, net, actionType) ==
    [spinIndex |-> spinsConsumed + 1,
     result |-> result,
     bets |-> betsSnapshot,
     outcomes |-> outcomes,
     betTotal |-> betTotal,
     payout |-> totalPayout,
     net |-> net,
     bankroll |-> BankrollAfter(bankroll, net),
     won |-> StepWon(net),
     actionType |-> actionType]

\* 2. Calculate Financials.
StepOf(result, betsSnapshot, resolved, betTotal, actionType) ==
    SimulationStep(result, betsSnapshot, resolved.outcomes, betTotal,
                   resolved.totalPayout, StepNet(resolved.totalPayout, betTotal),
                   actionType)

\* The SimulationStep recordStep pushes for a spin.
NewStep(result, activeBets, actionType, isWaitStep) ==
    StepOf(result, activeBets,
           IF isWaitStep THEN [totalPayout |-> 0, outcomes |-> <<>>]
           ELSE calculateDetailedOutcomes(activeBets, result),
           SumAmounts(activeBets), actionType)

Counters ==
    [wins |-> wins, losses |-> losses,
     currentWinStreak |-> currentWinStreak, currentLossStreak |-> currentLossStreak,
     longestWinStreak |-> longestWinStreak, longestLossStreak |-> longestLossStreak,
     maxDrawdown |-> maxDrawdown, maxUpside |-> maxUpside]

\* Faulty variant of StatsUpdate: a push (net 0) leaves the current streaks running.
StatsUpdatePushKeepsStreak(net, newBankroll) ==
    LET isWinStep == net > 0
        cws == IF isWinStep THEN currentWinStreak + 1
               ELSE IF net < 0 THEN 0 ELSE currentWinStreak
        cls == IF isWinStep THEN 0
               ELSE IF net < 0 THEN currentLossStreak + 1 ELSE currentLossStreak
        totalNetChange == newBankroll - initialBankroll
    IN  [wins |-> IF isWinStep THEN wins + 1 ELSE wins,
         losses |-> IF ~isWinStep /\ net < 0 THEN losses + 1 ELSE losses,
         currentWinStreak |-> cws,
         currentLossStreak |-> cls,
         longestWinStreak |-> IF cws > longestWinStreak THEN cws ELSE longestWinStreak,
         longestLossStreak |-> IF cls > longestLossStreak THEN cls ELSE longestLossStreak,
         maxDrawdown |-> IF totalNetChange < maxDrawdown THEN totalNetChange ELSE maxDrawdown,
         maxUpside |-> IF totalNetChange > maxUpside THEN totalNetChange ELSE maxUpside]

\* 4. Update Stats (non-wait steps only).
StatsUpdate(net, newBankroll) ==
    LET isWinStep == net > 0
        cws == IF isWinStep THEN currentWinStreak + 1 ELSE 0
        cls == IF isWinStep THEN 0
               ELSE IF net < 0 THEN currentLossStreak + 1 ELSE 0
        totalNetChange == newBankroll - initialBankroll
    IN  [wins |-> IF isWinStep THEN wins + 1 ELSE wins,
         losses |-> IF ~isWinStep /\ net < 0 THEN losses + 1 ELSE losses,
         currentWinStreak |-> cws,
         currentLossStreak |-> cls,
         longestWinStreak |-> IF cws > longestWinStreak THEN cws ELSE longestWinStreak,
         longestLossStreak |-> IF cls > longestLossStreak THEN cls ELSE longestLossStreak,
         maxDrawdown |-> IF totalNetChange < maxDrawdown THEN totalNetChange ELSE maxDrawdown,
         maxUpside |-> IF totalNetChange > maxUpside THEN totalNetChange ELSE maxUpside]

\* Faulty variant of LedgerPush: the entries hold the active wager list itself
\* instead of a snapshot, so the list scaled for this spin shows in all of them.
LedgerPushSharedWagers(ledger, step) ==
    Append([i \in 1..Len(ledger) |-> [ledger[i] EXCEPT !.bets = step.bets]], step)

\* steps.push({..., bets: betsSnapshot, ...}): the entry holds its own copy of
\* the wagers.
LedgerPush(ledger, step) == Append(ledger, step)

\* 3. Update Bankroll, 4. Update Stats, 5. Push Log Entry: the assignments.
PushStep(step, c) ==
    /\ spinsConsumed' = spinsConsumed + 1
    /\ bankroll' = step.bankroll
    /\ steps' = LedgerPush(steps, step)
    /\ wins' = c.wins
    /\ losses' = c.losses
    /\ currentWinStreak' = c.currentWinStreak
    /\ currentLossStreak' = c.currentLossStreak
    /\ longestWinStreak' = c.longestWinStreak
    /\ longestLossStreak' = c.longestLossStreak
    /\ maxDrawdown' = c.maxDrawdown
    /\ maxUpside' = c.maxUpside
    /\ haltStats' = Append(haltStats,
           SimulationStats(step.bankroll, Len(steps) + 1, c.wins, c.losses,
                           c.maxDrawdown, c.maxUpside,
                           c.longestWinStreak, c.longestLossStreak))

\* Faulty variant of PushStepOf: a wait step goes through the stats update too.
PushStepOfCountsWaits(step, isWaitStep) ==
    \E c \in {StatsUpdate(step.net, step.bankroll)} :
        PushStep(step, c)

PushStepOf(step, isWaitStep) ==
    \E c \in {IF isWaitStep THEN Counters ELSE StatsUpdate(step.net, step.bankroll)} :
        PushStep(step, c)

\* recordStep(result, activeBets, actionType, isWaitStep).  haltStats keeps, for
\* every ledger length, the stats object the run would return if it ended there.
recordStep(result, activeBets, actionType, isWaitStep) ==
    IF CannotAfford(isWaitStep, SumAmounts(activeBets))
    THEN /\ spinsConsumed' = spinsConsumed + 1
         /\ UNCHANGED <<bankroll, steps, wins, losses, maxDrawdown, maxUpside,
                        currentWinStreak, currentLossStreak, longestWinStreak,
                        longestLossStreak, haltStats>>
    ELSE \E step \in {NewStep(result, activeBets, actionType, isWaitStep)} :
            PushStepOf(step, isWaitStep)

(***************************************************************************)
(* Wager scaling and tree traversal.                                       *)
(***************************************************************************)
Max(a, b) == IF a > b THEN a ELSE b

\* currentBaseBets.map(b => ({...b, amount: Math.floor(b.amount * currentMultiplier)}))
ScaleBets(bets, multiplier) ==
    [i \in 1..Len(bets) |-> [bets[i] EXCEPT !.amount = bets[i].amount * multiplier]]

\* Scaling if over table max: every amount times tableMax / totalWager, floored,
\* at least 1.  The quotient is taken exactly.
ScaleToTableMax(bets, tableMax) ==
    LET totalWager == SumAmounts(bets)
    IN  IF totalWager > tableMax
        THEN [i \in 1..Len(bets) |->
                [bets[i] EXCEPT !.amount = Max(1, (bets[i].amount * tableMax) \div totalWager)]]
        ELSE bets

\* Faulty variant of NodeModifier: subtract_unit is not floored at 1.
NodeModifierUnfloored(node, multiplier) ==
    IF node.betsDefined THEN multiplier
    ELSE CASE node.type = "double" -> multiplier * 2
           [] node.type = "triple" -> multiplier * 3
           [] node.type = "add_unit" -> multiplier + 1
           [] node.type = "subtract_unit" -> multiplier - 1
           [] OTHER -> multiplier

\* The modifier cases double / triple / add_unit / subtract_unit of the switch on
\* the entered node's type; they apply only when the node has no bets property.
NodeModifier(node, multiplier) ==
    IF node.betsDefined THEN multiplier
    ELSE CASE node.type = "double" -> multiplier * 2
           [] node.type = "triple" -> multiplier * 3
           [] node.type = "add_unit" -> multiplier + 1
           [] node.type = "subtract_unit" -> Max(1, multiplier - 1)
           [] OTHER -> multiplier

\* Faulty variant of Transition: an absent child puts the cursor at the root
\* but keeps the multiplier.
TransitionKeepsMultiplier(nextNode, base, multiplier) ==
    IF nextNode = Null
    THEN [node |-> RootId, base |-> RootBets, mult |-> multiplier]
    ELSE LET node == NodeAt(nextNode)
             explicit == node.betsDefined /\ Len(node.bets) > 0
             base1 == IF explicit THEN node.bets ELSE base
             mult1 == IF explicit THEN 1 ELSE multiplier
         IN  IF node.type = "reset"
             THEN [node |-> RootId, base |-> RootBets, mult |-> 1]
             ELSE [node |-> nextNode, base |-> base1, mult |-> NodeModifier(node, mult1)]

\* Faulty variant of Transition: a reset node with wagers of its own makes them
\* the base.
TransitionResetKeepsOwnBets(nextNode, base, multiplier) ==
    IF nextNode = Null
    THEN [node |-> RootId, base |-> RootBets, mult |-> 1]
    ELSE LET node == NodeAt(nextNode)
             explicit == node.betsDefined /\ Len(node.bets) > 0
             base1 == IF explicit THEN node.bets ELSE base
             mult1 == IF explicit THEN 1 ELSE multiplier
         IN  IF node.type = "reset"
             THEN [node |-> RootId, base |-> IF explicit THEN node.bets ELSE RootBets,
                   mult |-> 1]
             ELSE [node |-> nextNode, base |-> base1, mult |-> NodeModifier(node, mult1)]

\* Determine the next cursor: an absent child resets to the root, explicit bets
\* override the base and reset the multiplier, a reset node redirects to the root.
Transition(nextNode, base, multiplier) ==
    IF nextNode = Null
    THEN [node |-> RootId, base |-> RootBets, mult |-> 1]
    ELSE LET node == NodeAt(nextNode)
             explicit == node.betsDefined /\ Len(node.bets) > 0
             base1 == IF explicit THEN node.bets ELSE base
             mult1 == IF explicit THEN 1 ELSE multiplier
         IN  IF node.type = "reset"
             THEN [node |-> RootId, base |-> RootBets, mult |-> 1]
             ELSE [node |-> nextNode, base |-> base1, mult |-> NodeModifier(node, mult1)]

\* The halt checks at the top of the main loop, with the loop guard.
Halted ==
    \/ ~(spinsConsumed < config.maxSpins)
    \/ bankroll <= strategy.stopLoss
    \/ (strategy.takeProfit > 0 /\ bankroll >= strategy.takeProfit)
    \/ bankroll <= 0

\* Leaving the main loop: the stats object is built and the run returns.
Finish ==
    /\ pc' = "done"
    /\ stats' = SimulationStats(bankroll, Len(steps), wins, losses, maxDrawdown,
                                maxUpside, longestWinStreak, longestLossStreak)

(***************************************************************************)
(* runSimulation: the pre-simulation wait phases.                          *)
(***************************************************************************)
PreSimWaitSpinsActive ==
    rootNode.type = "wait_spins" /\ rootNode.value # 0 /\ w < rootNode.value

PreSimWaitConditionActive ==
    /\ ~(rootNode.type = "wait_spins" /\ rootNode.value # 0)
    /\ rootNode.type = "wait_condition" /\ rootNode.condition # ""
    /\ ~conditionMet /\ w < SafetyCap

\* WAITING_FOR_${condition.toUpperCase()}
WaitingForTag(condition) ==
    CASE condition = "red" -> "WAITING_FOR_RED"
      [] condition = "black" -> "WAITING_FOR_BLACK"
      [] OTHER -> "WAITING_FOR_OTHER"

\* One iteration of the root wait_spins loop.
PreSimWaitSpin ==
    /\ pc = "presim"
    /\ PreSimWaitSpinsActive
    /\ \E n \in SpinNumbers :
          recordStep(generateSpin(n), <<>>, ActionType("WAITING", 0), TRUE)
    /\ w' = w + 1
    /\ UNCHANGED <<cfgVars, cursorVars, martVars, repeatVars, conditionMet, k, pc, stats>>

\* One iteration of the root wait_condition loop.
PreSimWaitCondition ==
    /\ pc = "presim"
    /\ PreSimWaitConditionActive
    /\ \E n \in SpinNumbers :
          LET res == generateSpin(n)
          IN  /\ recordStep(res, <<>>, ActionType(WaitingForTag(rootNode.condition), 0), TRUE)
              /\ conditionMet' = \/ rootNode.condition = "red" /\ res.color = "red"
                                 \/ rootNode.condition = "black" /\ res.color = "black"
    /\ w' = w + 1
    /\ UNCHANGED <<cfgVars, cursorVars, martVars, repeatVars, k, pc, stats>>

\* The wait phase is over (or there is none): the main loop starts.
PreSimEnd ==
    /\ pc = "presim"
    /\ ~PreSimWaitSpinsActive
    /\ ~PreSimWaitConditionActive
    /\ pc' = "main"
    /\ UNCHANGED <<cfgVars, ledgerVars, cursorVars, martVars, repeatVars, waitVars, stats>>

(***************************************************************************)
(* The main loop: guard and halt checks.                                   *)
(***************************************************************************)
Halt ==
    /\ pc = "main"
    /\ Halted
    /\ Finish
    /\ UNCHANGED <<cfgVars, ledgerVars, cursorVars, martVars, repeatVars, waitVars>>

(***************************************************************************)
(* Martingale node.                                                        *)
(***************************************************************************)
MartingaleLimitType(node) ==
    IF node.martingaleLimitType = "" THEN "until_bankrupt" ELSE node.martingaleLimitType

\* Faulty variant of MartingaleAbandons: the bankroll is not compared.
MartingaleAbandonsTableMaxOnly(totalWager) == totalWager > config.tableMax

\* Faulty variant of MartingaleAbandons: the table max is not compared.
MartingaleAbandonsBankrollOnly(totalWager) == totalWager > bankroll

\* Check Table Max: the sequence is abandoned without a spin.
MartingaleAbandons(totalWager) ==
    totalWager > config.tableMax \/ totalWager > bankroll

\* Faulty variant of MartingaleProgression: an until_bankrupt sequence resets
\* the multiplier on a win and goes on, as the profit_target one does.
MartingaleProgressionPastWin(limitType, limitValue, roundWin, stepCount, profit, multiplier) ==
    CASE limitType = "until_bankrupt" ->
            IF roundWin THEN [active |-> TRUE, mult |-> 1]
            ELSE [active |-> TRUE, mult |-> multiplier * 2]
      [] limitType = "profit_target" ->
            IF profit >= limitValue THEN [active |-> FALSE, mult |-> multiplier]
            ELSE IF ~roundWin THEN [active |-> TRUE, mult |-> multiplier * 2]
            ELSE [active |-> TRUE, mult |-> 1]
      [] limitType = "spin_count" ->
            IF stepCount >= limitValue THEN [active |-> FALSE, mult |-> multiplier]
            ELSE IF ~roundWin THEN [active |-> TRUE, mult |-> multiplier * 2]
            ELSE [active |-> TRUE, mult |-> multiplier]
      [] OTHER -> [active |-> TRUE, mult |-> multiplier]

\* Martingale progression logic after a recorded spin: whether the sequence
\* stays active, and the multiplier.
MartingaleProgression(limitType, limitValue, roundWin, stepCount, profit, multiplier) ==
    CASE limitType = "until_bankrupt" ->
            IF roundWin THEN [active |-> FALSE, mult |-> multiplier]
            ELSE [active |-> TRUE, mult |-> multiplier * 2]
      [] limitType = "profit_target" ->
            IF profit >= limitValue THEN [active |-> FALSE, mult |-> multiplier]
            ELSE IF ~roundWin THEN [active |-> TRUE, mult |-> multiplier * 2]
            ELSE [active |-> TRUE, mult |-> 1]
      [] limitType = "spin_count" ->
            IF stepCount >= limitValue THEN [active |-> FALSE, mult |-> multiplier]
            ELSE IF ~roundWin THEN [active |-> TRUE, mult |-> multiplier * 2]
            ELSE [active |-> TRUE, mult |-> multiplier]
      [] OTHER -> [active |-> TRUE, mult |-> multiplier]

\* Faulty variant of MartingaleLeave: a sequence that ends level counts as lost.
MartingaleLeaveOnGainOnly(multiplier) ==
    LET node == NodeAt(currentNode)
        sequenceWon == bankroll' > sequenceStartBankroll
        nextNode == IF sequenceWon THEN node.children.win ELSE node.children.loss
        t == Transition(nextNode, currentBaseBets, multiplier)
    IN  /\ currentNode' = t.node
        /\ currentBaseBets' = t.base
        /\ currentMultiplier' = t.mult
        /\ pc' = "main"

\* On sequence exit: the branch by sequenceWon, then the next cursor.
MartingaleLeave(multiplier) ==
    LET node == NodeAt(currentNode)
        sequenceWon == bankroll' >= sequenceStartBankroll
        nextNode == IF sequenceWon THEN node.children.win ELSE node.children.loss
        t == Transition(nextNode, currentBaseBets, multiplier)
    IN  /\ currentNode' = t.node
        /\ currentBaseBets' = t.base
        /\ currentMultiplier' = t.mult
        /\ pc' = "main"

MartingaleEnter ==
    /\ pc = "main"
    /\ ~Halted
    /\ NodeAt(currentNode).type = "martingale"
    /\ martingaleStepCount' = 0
    /\ sequenceStartBankroll' = bankroll
    /\ pc' = "mart"
    /\ UNCHANGED <<cfgVars, ledgerVars, cursorVars, repeatVars, waitVars, stats>>

MartingaleAbandon ==
    /\ pc = "mart"
    /\ MartingaleAbandons(SumAmounts(ScaleBets(currentBaseBets, currentMultiplier)))
    /\ UNCHANGED ledgerVars
    /\ MartingaleLeave(currentMultiplier)
    /\ UNCHANGED <<cfgVars, martVars, repeatVars, waitVars, stats>>

MartingaleSpin ==
    /\ pc = "mart"
    /\ ~MartingaleAbandons(SumAmounts(ScaleBets(currentBaseBets, currentMultiplier)))
    /\ \E n \in SpinNumbers :
          LET node == NodeAt(currentNode)
              activeBets == ScaleBets(currentBaseBets, currentMultiplier)
          IN  /\ recordStep(generateSpin(n), activeBets,
                            ActionType("MARTINGALE_x", currentMultiplier), FALSE)
              /\ IF ~RecordStepSuccess(activeBets, FALSE)
                 THEN /\ martingaleStepCount' = martingaleStepCount
                      /\ MartingaleLeave(currentMultiplier)
                 ELSE LET roundWin == steps'[Len(steps')].won
                          stepCount == martingaleStepCount + 1
                          p == MartingaleProgression(
                                   MartingaleLimitType(node), node.martingaleLimitValue,
                                   roundWin, stepCount,
                                   bankroll' - sequenceStartBankroll, currentMultiplier)
                          continues == /\ p.mult <= MultiplierCeiling
                                       /\ p.active
                                       /\ spinsConsumed' < config.maxSpins
                                       /\ bankroll' > 0
                      IN  /\ martingaleStepCount' = stepCount
                          /\ IF continues
                             THEN /\ currentMultiplier' = p.mult
                                  /\ pc' = "mart"
                                  /\ UNCHANGED <<currentNode, currentBaseBets>>
                             ELSE MartingaleLeave(p.mult)
    /\ UNCHANGED <<cfgVars, sequenceStartBankroll, repeatVars, waitVars, stats>>

(***************************************************************************)
(* repeat_until node.                                                      *)
(***************************************************************************)
RepeatUntilType(node) ==
    IF node.repeatUntilType = "" THEN "spins" ELSE node.repeatUntilType

RepeatUntilValue(node) ==
    IF node.repeatUntilValue = 0 THEN 1 ELSE node.repeatUntilValue

\* REPEAT_${repeatType.toUpperCase()}
RepeatTag(repeatType) ==
    CASE repeatType = "spins" -> "REPEAT_SPINS"
      [] repeatType = "wins" -> "REPEAT_WINS"
      [] repeatType = "profit_target" -> "REPEAT_PROFIT_TARGET"
      [] repeatType = "loss_limit" -> "REPEAT_LOSS_LIMIT"
      [] OTHER -> "REPEAT_OTHER"

\* Check Exit Condition.
RepeatExit(repeatType, repeatValue, spins, nWins, startBankroll, newBankroll) ==
    \/ repeatType = "spins" /\ spins >= repeatValue
    \/ repeatType = "wins" /\ nWins >= repeatValue
    \/ repeatType = "profit_target" /\ (newBankroll - startBankroll) >= repeatValue
    \/ repeatType = "loss_limit" /\ (startBankroll - newBankroll) >= repeatValue

\* Faulty variant of RepeatLeave: a visit that was losing money leaves by the
\* loss child.
RepeatLeaveByOutcome ==
    LET node == NodeAt(currentNode)
        child == IF bankroll < seqStartBankroll THEN node.children.loss
                                                ELSE node.children.win
        t == Transition(child, currentBaseBets, currentMultiplier)
    IN  /\ currentNode' = t.node
        /\ currentBaseBets' = t.base
        /\ currentMultiplier' = t.mult
        /\ pc' = "main"

\* Default flow out: always the win child.
RepeatLeave ==
    LET t == Transition(NodeAt(currentNode).children.win, currentBaseBets, currentMultiplier)
    IN  /\ currentNode' = t.node
        /\ currentBaseBets' = t.base
        /\ currentMultiplier' = t.mult
        /\ pc' = "main"

RepeatBets ==
    ScaleToTableMax(ScaleBets(currentBaseBets, currentMultiplier), config.tableMax)

RepeatEnter ==
    /\ pc = "main"
    /\ ~Halted
    /\ NodeAt(currentNode).type = "repeat_until"
    /\ loopSpins' = 0
    /\ loopWins' = 0
    /\ seqStartBankroll' = bankroll
    /\ pc' = "repeat"
    /\ UNCHANGED <<cfgVars, ledgerVars, cursorVars, martVars, waitVars, stats>>

RepeatAbandon ==
    /\ pc = "repeat"
    /\ SumAmounts(RepeatBets) > bankroll
    /\ RepeatLeave
    /\ UNCHANGED <<cfgVars, ledgerVars, martVars, repeatVars, waitVars, stats>>

RepeatSpin ==
    /\ pc = "repeat"
    /\ ~(SumAmounts(RepeatBets) > bankroll)
    /\ \E n \in SpinNumbers :
          LET node == NodeAt(currentNode)
              repeatType == RepeatUntilType(node)
          IN  /\ recordStep(generateSpin(n), RepeatBets,
                            ActionType(RepeatTag(repeatType), 0), FALSE)
              /\ IF Len(steps') = 0
                 THEN \* steps[steps.length - 1] is undefined: reading .won throws
                      /\ pc' = "threw"
                      /\ UNCHANGED <<cursorVars, repeatVars>>
                 ELSE LET lastStep == steps'[Len(steps')]
                          spins == loopSpins + 1
                          nWins == IF lastStep.won THEN loopWins + 1 ELSE loopWins
                          continues ==
                              /\ ~RepeatExit(repeatType, RepeatUntilValue(node), spins,
                                             nWins, seqStartBankroll, bankroll')
                              /\ spinsConsumed' < config.maxSpins
                              /\ bankroll' > 0
                      IN  /\ loopSpins' = spins
                          /\ loopWins' = nWins
                          /\ seqStartBankroll' = seqStartBankroll
                          /\ IF continues
                             THEN pc' = "repeat" /\ UNCHANGED cursorVars
                             ELSE RepeatLeave
    /\ UNCHANGED <<cfgVars, martVars, waitVars, stats>>

(***************************************************************************)
(* Standard single-spin node, with the wait_spins case of its transition.  *)
(***************************************************************************)
SingleBets ==
    ScaleToTableMax(ScaleBets(currentBaseBets, currentMultiplier), config.tableMax)

IsSingleSpinNode ==
    NodeAt(currentNode).type \notin {"martingale", "repeat_until"}

\* if (totalWager > bankroll) break;  -- game over
SingleBreak ==
    /\ pc = "main"
    /\ ~Halted
    /\ IsSingleSpinNode
    /\ SumAmounts(SingleBets) > bankroll
    /\ Finish
    /\ UNCHANGED <<cfgVars, ledgerVars, cursorVars, martVars, repeatVars, waitVars>>

\* Faulty variant of NextChild: the loss child is followed whatever the outcome.
NextChildAlwaysLoss(node, roundWin) == node.children.loss

\* roundWin ? currentNode.children.win : currentNode.children.loss
NextChild(node, roundWin) ==
    IF roundWin THEN node.children.win ELSE node.children.loss

\* One iteration of the main loop at a single-spin node, the spin drawn from
\* the given pockets.
SingleSpinOn(pockets) ==
    /\ pc = "main"
    /\ ~Halted
    /\ IsSingleSpinNode
    /\ ~(SumAmounts(SingleBets) > bankroll)
    /\ \E n \in pockets :
          LET tag == IF Len(SingleBets) > 0
                     THEN (IF Len(steps) = 0 THEN "START" ELSE "BET")
                     ELSE "NO_BET"
          IN  /\ recordStep(generateSpin(n), SingleBets, ActionType(tag, 0), FALSE)
              /\ IF Len(steps') = 0
                 THEN \* steps[steps.length - 1] is undefined: reading .won throws
                      /\ pc' = "threw"
                      /\ UNCHANGED <<cursorVars, k>>
                 ELSE LET roundWin == steps'[Len(steps')].won
                          node == NodeAt(currentNode)
                          nextNode == NextChild(node, roundWin)
                          t == Transition(nextNode, currentBaseBets, currentMultiplier)
                      IN  /\ currentNode' = t.node
                          /\ currentBaseBets' = t.base
                          /\ currentMultiplier' = t.mult
                          /\ k' = 0
                          /\ pc' = IF nextNode # Null /\ NodeAt(nextNode).type = "wait_spins"
                                   THEN "wait" ELSE "main"
    /\ UNCHANGED <<cfgVars, martVars, repeatVars, w, conditionMet, stats>>

SingleSpin == SingleSpinOn(SpinNumbers)

WaitSpinsActive ==
    NodeAt(currentNode).value # 0 /\ k < NodeAt(currentNode).value

\* One iteration of the wait loop of an entered wait_spins child.
WaitSpin ==
    /\ pc = "wait"
    /\ WaitSpinsActive
    /\ \E n \in SpinNumbers :
          recordStep(generateSpin(n), <<>>, ActionType("WAITING", 0), TRUE)
    /\ k' = k + 1
    /\ UNCHANGED <<cfgVars, cursorVars, martVars, repeatVars, w, conditionMet, pc, stats>>

\* Post-Wait Action: applied when the wait node has no wagers of its own.
PostWait(node, base, multiplier) ==
    IF node.postWaitAction # "" /\ (~node.betsDefined \/ Len(node.bets) = 0)
    THEN CASE node.postWaitAction = "double" -> [base |-> base, mult |-> multiplier * 2]
           [] node.postWaitAction = "triple" -> [base |-> base, mult |-> multiplier * 3]
           [] node.postWaitAction = "add_unit" -> [base |-> base, mult |-> multiplier + 1]
           [] node.postWaitAction = "subtract_unit" ->
                 [base |-> base, mult |-> Max(1, multiplier - 1)]
           [] node.postWaitAction = "reset" -> [base |-> RootBets, mult |-> 1]
           [] OTHER -> [base |-> base, mult |-> multiplier]
    ELSE [base |-> base, mult |-> multiplier]

WaitEnd ==
    /\ pc = "wait"
    /\ ~WaitSpinsActive
    /\ LET pw == PostWait(NodeAt(currentNode), currentBaseBets, currentMultiplier)
       IN  /\ currentBaseBets' = pw.base
           /\ currentMultiplier' = pw.mult
    /\ pc' = "main"
    /\ UNCHANGED <<cfgVars, ledgerVars, currentNode, martVars, repeatVars, waitVars, stats>>

Next ==
    \/ PreSimWaitSpin
    \/ PreSimWaitCondition
    \/ PreSimEnd
    \/ Halt
    \/ MartingaleEnter
    \/ MartingaleAbandon
    \/ MartingaleSpin
    \/ RepeatEnter
    \/ RepeatAbandon
    \/ RepeatSpin
    \/ SingleBreak
    \/ SingleSpin
    \/ WaitSpin
    \/ WaitEnd

Spec == Init /\ [][Next]_vars

\* The loop runs without suspension: a run that can take a step takes it.
FairSpec == Spec /\ WF_vars(Next)

(***************************************************************************)
(* Playback statistics of the application (displayedStats): the stats      *)
(* shown for the first playbackIndex steps of a completed run currentSim.  *)
(***************************************************************************)
PlaybackStart(initial) ==
    [wins |-> 0, losses |-> 0, currentWinStreak |-> 0, currentLossStreak |-> 0,
     longestWinStreak |-> 0, longestLossStreak |-> 0,
     maxDrawdown |-> 0, maxUpside |-> 0, bankroll |-> initial]

\* The body of displayedSteps.forEach(step => ...).
PlaybackStep(acc, step, initial) ==
    [wins |-> IF step.won THEN acc.wins + 1 ELSE acc.wins,
     losses |-> IF step.won THEN acc.losses ELSE acc.losses + 1,
     currentWinStreak |-> IF step.won THEN acc.currentWinStreak + 1 ELSE 0,
     currentLossStreak |-> IF step.won THEN 0 ELSE acc.currentLossStreak + 1,
     longestWinStreak |->
        IF step.won /\ acc.currentWinStreak + 1 > acc.longestWinStreak
        THEN acc.currentWinStreak + 1 ELSE acc.longestWinStreak,
     longestLossStreak |->
        IF ~step.won /\ acc.currentLossStreak + 1 > acc.longestLossStreak
        THEN acc.currentLossStreak + 1 ELSE acc.longestLossStreak,
     maxDrawdown |-> IF step.bankroll - initial < acc.maxDrawdown
                     THEN step.bankroll - initial ELSE acc.maxDrawdown,
     maxUpside |-> IF step.bankroll - initial > acc.maxUpside
                   THEN step.bankroll - initial ELSE acc.maxUpside,
     bankroll |-> step.bankroll]

RECURSIVE PlaybackFold(_, _, _)
PlaybackFold(displayedSteps, acc, initial) ==
    IF displayedSteps = <<>> THEN acc
    ELSE PlaybackFold(Tail(displayedSteps),
                      PlaybackStep(acc, displayedSteps[1], initial), initial)

PlaybackStats(simStats, acc, total) ==
    [simStats EXCEPT
        !.wins = acc.wins, !.losses = acc.losses,
        !.longestWinStreak = acc.longestWinStreak,
        !.longestLossStreak = acc.longestLossStreak,
        !.maxDrawdown = acc.maxDrawdown, !.maxUpside = acc.maxUpside,
        !.finalBankroll = acc.bankroll, !.totalSpins = total,
        !.roi = Roi(acc.bankroll, simStats.initialBankroll)]

\* currentSim.steps.slice(0, playbackIndex)
displayedSteps(currentSim, playbackIndex) ==
    SubSeq(currentSim.steps, 1,
           IF playbackIndex > Len(currentSim.steps) THEN Len(currentSim.steps)
           ELSE playbackIndex)

displayedStats(currentSim, playbackIndex) ==
    IF playbackIndex = 0
    THEN PlaybackStats(currentSim.stats,
                       PlaybackStart(currentSim.stats.initialBankroll), 0)
    ELSE IF playbackIndex >= Len(currentSim.steps) THEN currentSim.stats
    ELSE PlaybackStats(currentSim.stats,
                       PlaybackFold(displayedSteps(currentSim, playbackIndex),
                                    PlaybackStart(currentSim.stats.initialBankroll),
                                    currentSim.stats.initialBankroll),
                       playbackIndex)

\* The value runSimulation returns.
currentSim == [steps |-> steps, stats |-> stats]

(***************************************************************************)
(* Properties.                                                             *)
(***************************************************************************)
\* A wait entry is one recorded with a waiting action tag.
IsWaitEntry(e) ==
    e.actionType.tag \in {"WAITING", "WAITING_FOR_RED", "WAITING_FOR_BLACK",
                          "WAITING_FOR_OTHER"}

\* The bankroll held before the i-th ledger entry, read from the ledger.
BankrollBefore(i) == IF i = 1 THEN initialBankroll ELSE steps[i - 1].bankroll

\* The halt conditions on a bankroll value.
HaltCondition(b) ==
    \/ b <= strategy.stopLoss
    \/ (strategy.takeProfit > 0 /\ b >= strategy.takeProfit)
    \/ b <= 0

\* C1: every ledger entry's bankroll is the previous entry's bankroll (the
\* initial bankroll for the first entry) plus the entry's net, for wager
\* entries and wait entries alike.
C1_BankrollChain ==
    \A i \in 1..Len(steps) : steps[i].bankroll = BankrollBefore(i) + steps[i].net

\* C1 witness: a returned ledger holding a wait entry, a losing and a winning wager.
C1_Witness ==
    /\ pc = "done"
    /\ \E i \in 1..Len(steps) : IsWaitEntry(steps[i])
    /\ \E i \in 1..Len(steps) : steps[i].net < 0
    /\ \E i \in 1..Len(steps) : steps[i].net > 0

\* C2: a non-wait entry is recorded only when its wager total is at most the
\* bankroll held immediately before the spin, and (the initial bankroll being
\* >= 0 and the wager amounts positive) every recorded bankroll is >= 0.
C2_WagerWithinBankroll ==
    [][\A i \in (Len(steps) + 1)..Len(steps') :
          /\ ~IsWaitEntry(steps'[i]) => steps'[i].betTotal <= bankroll
          /\ initialBankroll >= 0 => steps'[i].bankroll >= 0]_vars

\* C2 witness: a whole bankroll was wagered at a martingale node and lost.
C2_Witness ==
    \E i \in 1..Len(steps) :
        /\ steps[i].actionType.tag = "MARTINGALE_x"
        /\ steps[i].betTotal > 0
        /\ steps[i].betTotal = BankrollBefore(i)
        /\ steps[i].bankroll = 0

\* C3: every run terminates (finite maxSpins, finite tree whose only cycle is a
\* back-edge to the root), under every sequence of outcomes.
C3_Terminates == <>(pc = "done")

\* C4: the ledger never holds more entries than config.maxSpins.
C4_SpinBudget == Len(steps) <= config.maxSpins

\* C5: no ledger entry (wager or wait) is recorded when the bankroll immediately
\* before the spin meets a halt condition (<= stopLoss, >= takeProfit > 0, <= 0).
C5_HaltCheckedBeforeEachSpin ==
    [][Len(steps') > Len(steps) => ~HaltCondition(bankroll)]_vars

\* C6: with maxSpins = 0 or stopLoss >= initialBankroll the run returns an empty
\* ledger and stats with finalBankroll = initialBankroll, totalSpins = 0,
\* wins = losses = 0 and ROI = 0, whatever the root's type.
C6_EmptyRun ==
    (pc = "done" /\ (config.maxSpins = 0 \/ strategy.stopLoss >= initialBankroll))
        => /\ steps = <<>>
           /\ stats.finalBankroll = initialBankroll
           /\ stats.totalSpins = 0
           /\ stats.wins = 0 /\ stats.losses = 0
           /\ stats.roi.num = 0

\* C7: the spin counter equals the ledger length in every state, and the i-th
\* entry carries spinIndex = i.
C7_SpinsMatchLedger ==
    /\ spinsConsumed = Len(steps)
    /\ \A i \in 1..Len(steps) : steps[i].spinIndex = i

\* C7 witness: a returned ledger of wait entries and wager entries, three or more.
C7_Witness ==
    /\ pc = "done"
    /\ Len(steps) >= 3
    /\ \E i \in 1..Len(steps) : IsWaitEntry(steps[i])
    /\ \E i \in 1..Len(steps) : ~IsWaitEntry(steps[i])

\* C8: every non-wait entry is reproducible from its own snapshot: re-resolving
\* entry.bets against entry.result gives the recorded per-wager outcomes,
\* betTotal is the sum of the snapshot amounts, payout the sum of the per-wager
\* payouts, net = payout - betTotal, and won holds iff net > 0.
C8_LedgerReproducible ==
    \A i \in 1..Len(steps) :
        ~IsWaitEntry(steps[i]) =>
            /\ Len(steps[i].outcomes) = Len(steps[i].bets)
            /\ \A j \in 1..Len(steps[i].bets) :
                  /\ steps[i].outcomes[j].bet = steps[i].bets[j]
                  /\ steps[i].outcomes[j].won = isWin(steps[i].result.number, steps[i].bets[j])
                  /\ steps[i].outcomes[j].payout =
                        (IF steps[i].outcomes[j].won
                         THEN steps[i].bets[j].amount * (1 + PayoutRatio(steps[i].bets[j].type))
                         ELSE 0)
                  /\ steps[i].outcomes[j].net =
                        steps[i].outcomes[j].payout - steps[i].bets[j].amount
            /\ steps[i].betTotal = SumAmounts(steps[i].bets)
            /\ steps[i].payout = SumPayout(steps[i].outcomes)
            /\ steps[i].net = steps[i].payout - steps[i].betTotal
            /\ steps[i].won <=> steps[i].net > 0

\* C8 witness: a recorded two-wager entry, one wager won and one lost, net 0.
C8_Witness ==
    \E i \in 1..Len(steps) :
        /\ Len(steps[i].bets) = 2
        /\ steps[i].outcomes[1].won # steps[i].outcomes[2].won
        /\ steps[i].net = 0
        /\ ~steps[i].won

\* The non-wait entries of a ledger, in order.
NonWait(ledger) == SelectSeq(ledger, LAMBDA e : ~IsWaitEntry(e))

SetMax(S) == CHOOSE x \in S : \A y \in S : y <= x
SetMin(S) == CHOOSE x \in S : \A y \in S : x <= y

\* The longest run of consecutive entries of l with net > 0.
LongestWinRun(l) ==
    SetMax({0} \cup {n \in 1..Len(l) :
                \E i \in 1..(Len(l) - n + 1) : \A m \in i..(i + n - 1) : l[m].net > 0})

\* The longest run of consecutive entries of l with net < 0.
LongestLossRun(l) ==
    SetMax({0} \cup {n \in 1..Len(l) :
                \E i \in 1..(Len(l) - n + 1) : \A m \in i..(i + n - 1) : l[m].net < 0})

\* C9: the returned stats are the fold over the ledger's non-wait entries: wins
\* counts net > 0, losses counts net < 0, a net = 0 entry counts as neither and
\* ends both streaks, the longest streaks are the longest such runs, drawdown and
\* upside are the minimum and maximum of 0 and (bankroll - initialBankroll) over
\* those entries, and finalBankroll is the last entry's bankroll (the initial
\* bankroll for an empty ledger).
C9_StatsAreLedgerFold ==
    pc = "done" =>
        /\ stats.wins = Cardinality({i \in 1..Len(NonWait(steps)) : NonWait(steps)[i].net > 0})
        /\ stats.losses = Cardinality({i \in 1..Len(NonWait(steps)) : NonWait(steps)[i].net < 0})
        /\ stats.longestWinStreak = LongestWinRun(NonWait(steps))
        /\ stats.longestLossStreak = LongestLossRun(NonWait(steps))
        /\ stats.maxDrawdown =
              SetMin({0} \cup {NonWait(steps)[i].bankroll - initialBankroll :
                                  i \in 1..Len(NonWait(steps))})
        /\ stats.maxUpside =
              SetMax({0} \cup {NonWait(steps)[i].bankroll - initialBankroll :
                                  i \in 1..Len(NonWait(steps))})
        /\ stats.finalBankroll =
              (IF steps = <<>> THEN initialBankroll ELSE steps[Len(steps)].bankroll)

\* C9 witness: a returned ledger with a win, then a push, then a win, whose
\* longest win streak is 1.
C9_Witness ==
    /\ pc = "done"
    /\ Len(steps) = 3
    /\ steps[1].net > 0 /\ steps[2].net = 0 /\ steps[3].net > 0
    /\ ~IsWaitEntry(steps[2])
    /\ stats.wins = 2 /\ stats.losses = 0
    /\ stats.longestWinStreak = 1

\* The statistics playback shows, of a stats object.
PlaybackFields(st) ==
    <<st.wins, st.losses, st.longestWinStreak, st.longestLossStreak,
      st.maxDrawdown, st.maxUpside, st.finalBankroll>>

\* The stats the run would return had it halted right after n entries.
EngineStatsAfter(n) ==
    IF n = 0 THEN SimulationStats(initialBankroll, 0, 0, 0, 0, 0, 0, 0)
    ELSE haltStats[n]

\* C10: for a completed run and every prefix length n, the playback statistics of
\* the first n entries equal the statistics the engine would report had the run
\* halted right after those n entries.
C10_PlaybackMatchesEngine ==
    pc = "done" =>
        \A n \in 0..Len(steps) :
            PlaybackFields(displayedStats(currentSim, n)) = PlaybackFields(EngineStatsAfter(n))

(***************************************************************************)
(* Martingale visits with a spin count.                                    *)
(***************************************************************************)
\* The inner loop of a martingale node with limit type spin_count is running.
InSpinCountVisit ==
    /\ pc = "mart"
    /\ MartingaleLimitType(NodeAt(currentNode)) = "spin_count"

\* The entry the step has appended to the ledger.
LastStep == steps[Len(steps)]

\* C11: one visit to a martingale node with limit type spin_count and limit value
\* N records at most N ledger entries: every entry recorded during the visit is
\* the martingaleStepCount-th of the visit, and that count never exceeds N.
C11_SpinCountBoundsVisit ==
    [][ (InSpinCountVisit /\ Len(steps') > Len(steps)) =>
            /\ Len(steps') = Len(steps) + 1
            /\ martingaleStepCount' = martingaleStepCount + 1
            /\ martingaleStepCount' <= NodeAt(currentNode).martingaleLimitValue ]_vars

\* The step leaves the multiplier the progression logic produced untouched: the
\* visit continues, or the node entered has no wagers and no modifier of its own.
MultiplierCarriedOver ==
    \/ pc' = "mart"
    \/ /\ currentNode' # RootId
       /\ NodeAt(currentNode').type = "same_bet"
       /\ ~NodeAt(currentNode').betsDefined

\* C12: within a visit to a spin_count martingale node the multiplier held after
\* a losing spin is twice the multiplier used for that spin, the last spin of
\* the visit included, and after a winning spin it is the multiplier used.
C12_SpinCountDoublesOnEveryLoss ==
    [][ (InSpinCountVisit /\ Len(steps') = Len(steps) + 1 /\ MultiplierCarriedOver) =>
            /\ LastStep'.net < 0 => currentMultiplier' = 2 * LastStep'.actionType.x
            /\ LastStep'.net > 0 => currentMultiplier' = LastStep'.actionType.x ]_vars

(***************************************************************************)
(* The bet resolver on the whole wheel: runs of one spin whose root places *)
(* a single wager, the spin drawn from all 38 pockets.                     *)
(***************************************************************************)
\* Math.floor(Math.random() * 38), 37 standing for '00'.
Pockets == (0..36) \cup {DoubleZero}

BetTypes ==
    {"STRAIGHT", "SPLIT", "STREET", "CORNER", "BASKET", "LINE", "COLUMN", "DOZEN",
     "RED_BLACK", "EVEN_ODD", "HIGH_LOW", "TRIO"}

\* Labels of the wagers explored: "" is an absent label, "Other" one that no
\* rule recognises.
Labels ==
    {"", "Other", "Red", "black", "green", "Even", "Odd", "1-18", "19-36",
     "1st 12", "2nd 12", "3rd 12", "2 to 1 (Bot)", "2 to 1 (Mid)", "2 to 1 (Top)"}

FirstDozen == [i \in 1..12 |-> i]

\* Numbers lists of the wagers explored; 37 is the number that covers '00'.
NumberLists == {<<>>, <<17>>, <<37>>, <<0, 37>>, <<1, 2, 3>>, FirstDozen}

Stakes == {1, 5, 10}

Wagers ==
    {PlacedBet(t, ns, a, l) : t \in BetTypes, ns \in NumberLists, a \in Stakes, l \in Labels}

ResolverBankroll == 100

ResolverInit ==
    /\ initialBankroll = ResolverBankroll
    /\ \E bet \in Wagers :
          strategy = [rootNode |-> << WithBets("custom_bet", <<bet>>, Null, Null) >>,
                      stopLoss |-> 0, takeProfit |-> 0]
    /\ config = [maxSpins |-> 1, tableMin |-> 1, tableMax |-> 500]
    /\ isStrategyComplete = checkStrategyComplete(strategy.rootNode)
    /\ viewMode = "simulation" /\ NoResults
    /\ StartOfRun

ResolveSpin == SingleSpinOn(Pockets)

ResolverNext ==
    \/ PreSimEnd
    \/ ResolveSpin
    \/ Halt

ResolverSpec == ResolverInit /\ [][ResolverNext]_vars

\* The resolved wagers of the ledger: each outcome with the pocket it was
\* resolved against.
ResolvedWagers ==
    UNION {{[outcome |-> steps[i].outcomes[j], number |-> steps[i].result.number] :
               j \in 1..Len(steps[i].outcomes)} : i \in 1..Len(steps)}

\* The payout table of the eleven wager types, as ratio to 1.
StatedRatio(type) ==
    CASE type = "STRAIGHT" -> 35 [] type = "SPLIT" -> 17 [] type = "STREET" -> 11
      [] type = "CORNER" -> 8 [] type = "BASKET" -> 6 [] type = "LINE" -> 5
      [] type = "COLUMN" -> 2 [] type = "DOZEN" -> 2 [] type = "RED_BLACK" -> 1
      [] type = "EVEN_ODD" -> 1 [] type = "HIGH_LOW" -> 1

ElevenTypes == BetTypes \ {"TRIO"}

\* The numbers a numbers list holds.
Covered(numbers) == {numbers[i] : i \in 1..Len(numbers)}

\* The pocket as a number, '00' being 37.
Normalized(number) == IF number = DoubleZero THEN 37 ELSE number

\* C13: for every wager of the eleven types and every stake, the gross payout
\* of a winning wager is stake + stake * ratio (net stake * ratio) by the payout
\* table, and a losing wager has payout 0 and net -stake.
C13_PayoutTable ==
    \A r \in ResolvedWagers :
        LET o == r.outcome
            stake == o.bet.amount
        IN  o.bet.type \in ElevenTypes =>
              /\ o.won => /\ o.payout = stake + stake * StatedRatio(o.bet.type)
                          /\ o.net = stake * StatedRatio(o.bet.type)
              /\ ~o.won => o.payout = 0 /\ o.net = 0 - stake

\* A $5 STRAIGHT on 17 has paid 180 on a hit.
C13_Witness ==
    \E r \in ResolvedWagers :
        /\ r.outcome.bet.type = "STRAIGHT" /\ r.outcome.bet.amount = 5
        /\ r.outcome.bet.numbers = <<17>> /\ r.number = 17
        /\ r.outcome.won /\ r.outcome.payout = 180 /\ r.outcome.net = 175

\* C14: a BASKET wager wins on exactly the pockets 0, 00, 1, 2 and 3, whatever its
\* numbers list and label, and a winning BASKET of stake s returns gross 7 * s.
C14_Basket ==
    \A r \in ResolvedWagers :
        r.outcome.bet.type = "BASKET" =>
            /\ r.outcome.won <=> r.number \in {0, DoubleZero, 1, 2, 3}
            /\ r.outcome.won => r.outcome.payout = 7 * r.outcome.bet.amount

\* A $10 BASKET whose numbers list is [17] has won on 00 and returned 70.
C14_Witness ==
    \E r \in ResolvedWagers :
        /\ r.outcome.bet.type = "BASKET" /\ r.outcome.bet.numbers = <<17>>
        /\ r.outcome.bet.amount = 10 /\ r.number = DoubleZero
        /\ r.outcome.won /\ r.outcome.payout = 70

\* The pocket's colour / parity / half is the one the label names.
MatchesLabel(type, label, n) ==
    CASE type = "RED_BLACK" ->
            \/ label \in {"Red", "red", "RED"} /\ n \in RedNumbers
            \/ label \in {"Black", "black", "BLACK"} /\ n \notin RedNumbers
      [] type = "EVEN_ODD" ->
            \/ label = "Even" /\ n % 2 = 0
            \/ label = "Odd" /\ n % 2 = 1
      [] type = "HIGH_LOW" ->
            \/ label = "1-18" /\ n \in 1..18
            \/ label = "19-36" /\ n \in 19..36

\* C15: RED_BLACK, EVEN_ODD and HIGH_LOW wagers lose on 0 and on 00 for every
\* label and numbers list, and on 1..36 they win iff the pocket's colour /
\* parity / half matches the label.
C15_EvenMoney ==
    \A r \in ResolvedWagers :
        LET bet == r.outcome.bet
        IN  bet.type \in {"RED_BLACK", "EVEN_ODD", "HIGH_LOW"} =>
              IF r.number \in {0, DoubleZero} THEN ~r.outcome.won
              ELSE r.outcome.won <=> MatchesLabel(bet.type, bet.label, r.number)

\* A RED_BLACK wager labelled with the colour of the zeros has lost on 0.
C15_Witness ==
    \E r \in ResolvedWagers :
        /\ r.outcome.bet.type = "RED_BLACK" /\ r.outcome.bet.label = "green"
        /\ r.number = 0 /\ ~r.outcome.won

\* The modulo-3 rule of a COLUMN label.
ColumnRule(label, n) ==
    \/ label = "2 to 1 (Bot)" /\ n % 3 = 1
    \/ label = "2 to 1 (Mid)" /\ n % 3 = 2
    \/ label = "2 to 1 (Top)" /\ n % 3 = 0

\* C16: DOZEN and COLUMN wagers lose on 0 and 00; on 1..36 a DOZEN or COLUMN wager
\* with a populated numbers list wins iff the pocket is in the list, whatever
\* its label, and a COLUMN wager with an empty list wins by the modulo-3 rule
\* of its label.
C16_DozenColumn ==
    \A r \in ResolvedWagers :
        LET bet == r.outcome.bet
        IN  bet.type \in {"DOZEN", "COLUMN"} =>
              IF r.number \in {0, DoubleZero} THEN ~r.outcome.won
              ELSE /\ Len(bet.numbers) > 0 =>
                        (r.outcome.won <=> r.number \in Covered(bet.numbers))
                   /\ (bet.type = "COLUMN" /\ Len(bet.numbers) = 0) =>
                        (r.outcome.won <=> ColumnRule(bet.label, r.number))

\* C17: STRAIGHT, SPLIT, STREET, CORNER and LINE wagers win iff the pocket's
\* normalized value (00 as 37) is in the wager's numbers list; 0 and 00 are
\* ordinary coverable numbers for these types.
C17_InsideBets ==
    \A r \in ResolvedWagers :
        r.outcome.bet.type \in {"STRAIGHT", "SPLIT", "STREET", "CORNER", "LINE"} =>
            (r.outcome.won <=> Normalized(r.number) \in Covered(r.outcome.bet.numbers))

\* A SPLIT on [0, 37] has won on 00.
C17_Witness ==
    \E r \in ResolvedWagers :
        /\ r.outcome.bet.type = "SPLIT" /\ r.outcome.bet.numbers = <<0, 37>>
        /\ r.number = DoubleZero /\ r.outcome.won

(***************************************************************************)
(* A root that loops to itself on a win.                                   *)
(***************************************************************************)
RootLoopsOnWin == rootNode.children.win = RootId

\* The step records a winning spin placed at the root.
WinningSpinAtRoot ==
    /\ currentNode = RootId
    /\ pc \in {"main", "mart", "repeat"}
    /\ Len(steps') = Len(steps) + 1
    /\ LastStep'.won

CursorAtRootAfresh ==
    /\ currentNode = RootId
    /\ currentBaseBets = RootBets
    /\ currentMultiplier = 1

\* A condition on which the main loop is left: the spin budget, a halt check,
\* or a wager the bankroll cannot cover.
RunMayEnd ==
    \/ spinsConsumed >= config.maxSpins
    \/ HaltCondition(bankroll)
    \/ SumAmounts(SingleBets) > bankroll

\* After a winning spin at the root the cursor is the root with the root's
\* wagers and multiplier 1; the run ends only on a halt condition.
RootLoopStep ==
    /\ WinningSpinAtRoot => CursorAtRootAfresh'
    /\ pc' # "threw"
    /\ (pc # "done" /\ pc' = "done") => RunMayEnd

C19_TreeAndLedgerUntouched ==
    [][ /\ strategy' = strategy
        /\ Len(steps') >= Len(steps)
        /\ \A i \in 1..Len(steps) : steps'[i].bets = steps[i].bets ]_vars

\* A finished run whose second spin placed the root's wager doubled: the first
\* entry and the root still hold the wager of 5.
C19_Witness ==
    /\ pc = "done"
    /\ Len(steps) >= 2
    /\ Len(rootNode.bets) = 1 /\ rootNode.bets[1].amount = 5
    /\ Len(steps[1].bets) = 1 /\ steps[1].bets[1].amount = 5
    /\ Len(steps[2].bets) = 1 /\ steps[2].bets[1].amount = 10

(***************************************************************************)
(* The strategy builder: a tree under construction and the effect that     *)
(* recomputes isStrategyComplete when rootNode changes.                    *)
(***************************************************************************)
ChildRefs == {Null, RootId, 2}

\* The nodes the builder's root is drawn from: every type, with and without
\* wagers, parameters and children.
BuilderNodes ==
    {[type |-> t, betsDefined |-> TRUE, bets |-> b,
      value |-> v, condition |-> c, postWaitAction |-> "",
      martingaleLimitType |-> mt, martingaleLimitValue |-> v,
      repeatUntilType |-> rt, repeatUntilValue |-> v,
      children |-> [win |-> cw, loss |-> cl]] :
        t \in {"start_immediately", "wait_spins", "wait_condition", "reset", "double",
               "triple", "add_unit", "subtract_unit", "same_bet", "custom_bet",
               "martingale", "repeat_until"},
        b \in {<<>>, <<Red(5)>>},
        v \in {0, 5},
        c \in {"", "red"},
        mt \in {"", "profit_target", "spin_count", "until_bankrupt"},
        rt \in {"", "spins"},
        cw \in ChildRefs, cl \in ChildRefs}

\* The tree under construction: the root and a reset node for its branches.
BuilderTree(node) == << node, NoBets("reset", Null, Null) >>

BuilderInit ==
    /\ initialBankroll = 1000
    /\ \E node \in BuilderNodes :
          strategy = [rootNode |-> BuilderTree(node), stopLoss |-> 0, takeProfit |-> 0]
    /\ config = [maxSpins |-> 0, tableMin |-> 1, tableMax |-> 500]
    /\ isStrategyComplete = FALSE
    /\ viewMode = "builder" /\ NoResults
    /\ StartOfRun

\* useEffect(() => { ... setIsStrategyComplete(complete) }, [rootNode])
StrategyEffect ==
    /\ isStrategyComplete' = checkStrategyComplete(strategy.rootNode)
    /\ UNCHANGED <<initialBankroll, strategy, config, appVars, ledgerVars, cursorVars,
                   martVars, repeatVars, waitVars, pc, stats>>

BuilderNext == StrategyEffect

BuilderSpec == BuilderInit /\ [][BuilderNext]_vars

BothChildrenSet(node) == node.children.win # Null /\ node.children.loss # Null

UntilBankruptMartingale(node) ==
    node.type = "martingale" /\ node.martingaleLimitType = "until_bankrupt"

\* C20: isNodeValid accepts a node only if both its win and loss children are
\* set, with two exceptions: a reset node needs no children, and a martingale node
\* with limit type until_bankrupt is valid with only its win child set.
C20_NodeValidity ==
    /\ isNodeValid(rootNode) =>
          \/ BothChildrenSet(rootNode)
          \/ rootNode.type = "reset"
          \/ UntilBankruptMartingale(rootNode) /\ rootNode.children.win # Null
    /\ rootNode.type = "reset" => isNodeValid(rootNode)
    /\ (UntilBankruptMartingale(rootNode) /\ rootNode.children.win # Null)
          => isNodeValid(rootNode)

(***************************************************************************)
(* The transition out of a single-spin node.                               *)
(***************************************************************************)
\* The step places and records the spin of a single-spin node.
SingleSpinStep ==
    /\ pc = "main"
    /\ IsSingleSpinNode
    /\ Len(steps') = Len(steps) + 1

\* The child the outcome of the recorded spin selects.
ChosenChild == NextChild(NodeAt(currentNode), LastStep'.won)

\* The modifier of a node type on a multiplier.
StatedModifier(type, multiplier) ==
    CASE type = "double" -> multiplier * 2
      [] type = "triple" -> multiplier * 3
      [] type = "add_unit" -> multiplier + 1
      [] type = "subtract_unit" -> IF multiplier - 1 < 1 THEN 1 ELSE multiplier - 1
      [] type = "same_bet" -> multiplier

\* C21: after a single-spin node's spin, when the chosen child exists: a child
\* with a non-empty wager list replaces the base and resets the multiplier to 1;
\* a child whose wager list is absent or empty keeps the base and applies its
\* modifier (double, triple, add_unit, subtract_unit, same_bet) to the
\* inherited multiplier.
C21_SingleSpinTransition ==
    [][ (SingleSpinStep /\ ChosenChild # Null) =>
            LET child == NodeAt(ChosenChild)
            IN  /\ (Len(child.bets) > 0 /\ child.type # "reset") =>
                      /\ currentBaseBets' = child.bets
                      /\ currentMultiplier' = 1
                /\ (Len(child.bets) = 0
                    /\ child.type \in {"double", "triple", "add_unit",
                                       "subtract_unit", "same_bet"}) =>
                      /\ currentBaseBets' = currentBaseBets
                      /\ currentMultiplier' = StatedModifier(child.type, currentMultiplier)
      ]_vars

(***************************************************************************)
(* Wait nodes.                                                             *)
(***************************************************************************)
\* The ledger holds a wagering (non-wait) entry.
HasWagered == \E i \in 1..Len(steps) : ~IsWaitEntry(steps[i])

\* The last n entries of the ledger are wait entries.
LastAreWaits(n) ==
    /\ Len(steps) >= n
    /\ \A i \in (Len(steps) - n + 1)..Len(steps) : IsWaitEntry(steps[i])

\* The main loop is about to wager at a node the cursor has entered: a node other
\* than the root (entered as a child), or the root before the first wager.
AboutToWagerAtEnteredNode ==
    /\ pc = "main"
    /\ (currentNode # RootId \/ ~HasWagered)

\* A wait_spins node about to be wagered at has had its wait entries recorded,
\* and no wait loop runs longer than the node's value.
WaitSpinsServed ==
    /\ (AboutToWagerAtEnteredNode
        /\ NodeAt(currentNode).type = "wait_spins"
        /\ NodeAt(currentNode).value > 0)
          => LastAreWaits(NodeAt(currentNode).value)
    /\ pc = "wait" => k <= NodeAt(currentNode).value
    /\ (pc = "presim" /\ rootNode.type = "wait_spins") => w <= rootNode.value

\* C22: whenever the cursor enters a wait_spins node with value N (the root at
\* run start, the child of a single-spin node, or the child chosen on exit from
\* a martingale or repeat_until sequence), N wait entries are appended before
\* the next wagering spin, and the outcome of that spin selects between the wait
\* node's win and loss children.
C22_WaitSpinsBeforeWager ==
    [][ /\ WaitSpinsServed'
        /\ (SingleSpinStep /\ NodeAt(currentNode).type = "wait_spins") =>
              currentNode' = Transition(ChosenChild, currentBaseBets, currentMultiplier).node
      ]_vars

\* The outcome satisfies a wait condition.
ConditionSatisfied(condition, result) ==
    \/ condition = "red" /\ result.color = "red"
    \/ condition = "black" /\ result.color = "black"

\* The ledger ends with a wait phase that an outcome satisfying the condition,
\* or the cap of 200 iterations, has closed.
WaitConditionServed(condition) ==
    /\ LastAreWaits(1)
    /\ \/ ConditionSatisfied(condition, LastStep.result)
       \/ LastAreWaits(200)

\* C23: whenever the cursor is at a wait_condition node (the root at run start or
\* a node reached as a child), only wait entries are recorded until an outcome
\* satisfying the condition has been drawn or 200 iterations are reached; no
\* wager is placed at the node before then, and a wait phase records at most
\* 200 entries.
C23_WaitConditionBeforeWager ==
    [][ /\ (SingleSpinStep
            /\ (currentNode # RootId \/ ~HasWagered)
            /\ NodeAt(currentNode).type = "wait_condition"
            /\ NodeAt(currentNode).condition # "")
              => WaitConditionServed(NodeAt(currentNode).condition)
        /\ w' <= 200
      ]_vars

(***************************************************************************)
(* Wagers the bankroll cannot cover, and the table maximum.                *)
(***************************************************************************)
\* The wager total the node under the cursor computes for its next spin, after
\* its table-max handling, exceeds the bankroll.
InsufficientBankroll ==
    \/ /\ pc = "main" /\ ~Halted /\ IsSingleSpinNode
       /\ SumAmounts(SingleBets) > bankroll
    \/ /\ pc = "mart"
       /\ SumAmounts(ScaleBets(currentBaseBets, currentMultiplier)) <= config.tableMax
       /\ SumAmounts(ScaleBets(currentBaseBets, currentMultiplier)) > bankroll
    \/ /\ pc = "repeat"
       /\ SumAmounts(RepeatBets) > bankroll

\* C24: whenever the computed wager total (after table-max handling) exceeds the
\* bankroll, at a single-spin node, inside a martingale sequence or inside a
\* repeat_until sequence, no entry is recorded for that spin, the run halts
\* (no later entry is recorded) and the partial ledger with its stats is
\* returned.
C24_InsufficientBankrollHalts ==
    [][ InsufficientBankroll =>
            /\ steps' = steps
            /\ pc' = "done"
            /\ stats'.totalSpins = Len(steps) ]_vars

\* C25: every ledger entry, of every node type, has betTotal <= config.tableMax,
\* the entries of single-spin and repeat_until nodes whose wagers were scaled
\* down with each wager floored at 1 unit included.
C25_TableMaxBoundsEveryEntry ==
    \A i \in 1..Len(steps) : steps[i].betTotal <= config.tableMax

(***************************************************************************)
(* Martingale sequences.                                                   *)
(***************************************************************************)
\* base * multiplier, the wagers of the next spin of the sequence.
MartingaleWager == ScaleBets(currentBaseBets, currentMultiplier)

\* C26: inside a martingale sequence every recorded entry has betTotal <=
\* config.tableMax and betTotal <= the bankroll before the spin; when base *
\* multiplier exceeds the table max or the bankroll the sequence is abandoned
\* without recording a spin and without scaling the wager down.
C26_MartingaleWagerBounds ==
    [][ pc = "mart" =>
            IF \/ SumAmounts(MartingaleWager) > config.tableMax
               \/ SumAmounts(MartingaleWager) > bankroll
            THEN steps' = steps /\ pc' # "mart"
            ELSE Len(steps') > Len(steps) =>
                    /\ LastStep'.bets = MartingaleWager
                    /\ LastStep'.betTotal <= config.tableMax
                    /\ LastStep'.betTotal <= bankroll
      ]_vars

\* An until_bankrupt sequence at the root has lost its first spin and has been
\* abandoned at the doubled wager, which exceeds the table max of 8.
C26_Witness ==
    /\ rootNode.type = "martingale"
    /\ rootNode.martingaleLimitType = "until_bankrupt"
    /\ config.tableMax = 8 /\ config.maxSpins > 1
    /\ Len(steps) = 1 /\ steps[1].betTotal = 5 /\ steps[1].net < 0
    /\ bankroll = 15
    /\ pc = "main"

\* The bankroll at the start of the martingale visit that n recorded spins of
\* the ledger belong to, read from the ledger.
BankrollAtVisitStart(ledger, n) ==
    IF n = 0 THEN (IF Len(ledger) = 0 THEN initialBankroll ELSE ledger[Len(ledger)].bankroll)
    ELSE IF Len(ledger) = n THEN initialBankroll
    ELSE ledger[Len(ledger) - n].bankroll

\* C27: on exit from a martingale sequence, for every limit type and exit cause
\* (abandonment before any spin included), the cursor moves to the node's win
\* child iff the bankroll at exit is >= the bankroll at the start of the
\* sequence, and to its loss child otherwise.
C27_MartingaleBranch ==
    [][ (pc = "mart" /\ pc' # "mart") =>
            LET node == NodeAt(currentNode)
                atStart == BankrollAtVisitStart(steps', martingaleStepCount')
                child == IF bankroll' >= atStart THEN node.children.win
                         ELSE node.children.loss
            IN  currentNode' = Transition(child, currentBaseBets, currentMultiplier).node
      ]_vars

\* A spin_count sequence abandoned before any spin has moved the cursor to the
\* node's win child, the loss child being a different node.
C27_Witness ==
    /\ rootNode.type = "martingale"
    /\ rootNode.children.win = 2 /\ rootNode.children.loss = 3
    /\ Len(steps) = 0
    /\ pc = "main" /\ currentNode = 2

\* The entries the current martingale visit has recorded so far.
VisitEntries == (Len(steps) - martingaleStepCount + 1)..Len(steps)

\* C28: in a martingale visit with limit type until_bankrupt no spin is placed
\* after the first spin with net > 0 (every earlier spin of the visit had net
\* <= 0), and each spin after the first uses exactly twice the multiplier of the
\* preceding spin.
C28_UntilBankruptSequence ==
    [][ (/\ pc = "mart"
         /\ MartingaleLimitType(NodeAt(currentNode)) = "until_bankrupt"
         /\ martingaleStepCount >= 1
         /\ Len(steps') > Len(steps)) =>
            /\ \A i \in VisitEntries : steps[i].net <= 0
            /\ LastStep'.actionType.x = 2 * LastStep.actionType.x
      ]_vars

\* An until_bankrupt visit at the root lost at multiplier 1, won at multiplier 2
\* and ended there with spins left in the budget.
C28_Witness ==
    /\ rootNode.type = "martingale"
    /\ rootNode.martingaleLimitType = "until_bankrupt"
    /\ Len(steps) = 2 /\ config.maxSpins = 3
    /\ steps[1].net < 0 /\ steps[1].actionType.x = 1
    /\ steps[2].net > 0 /\ steps[2].actionType.x = 2
    /\ pc = "main"

(***************************************************************************)
(* repeat_until visits.                                                    *)
(***************************************************************************)
\* The entries the current repeat_until visit has recorded so far.
RepeatVisitEntries == (Len(steps) - loopSpins + 1)..Len(steps)

\* The configured exit condition of the visit under way holds, by the ledger.
ExitConditionHolds ==
    LET node == NodeAt(currentNode)
        type == node.repeatUntilType
        value == node.repeatUntilValue
        atStart == BankrollAtVisitStart(steps, loopSpins)
    IN  \/ type = "spins" /\ loopSpins >= value
        \/ type = "wins"
           /\ Cardinality({i \in RepeatVisitEntries : steps[i].net > 0}) >= value
        \/ type = "profit_target" /\ bankroll - atStart >= value
        \/ type = "loss_limit" /\ atStart - bankroll >= value

\* C29: a repeat_until visit places no spin after its configured exit condition
\* first holds (spins: spin count >= value; wins: count of net > 0 spins >=
\* value; profit_target: bankroll - bankroll at start >= value; loss_limit:
\* bankroll at start - bankroll >= value); a spins-type visit records at most
\* value entries.
C29_RepeatStopsAtExitCondition ==
    [][ (pc = "repeat" /\ Len(steps') > Len(steps)) =>
            /\ ~ExitConditionHolds
            /\ NodeAt(currentNode).repeatUntilType = "spins" =>
                  loopSpins' <= NodeAt(currentNode).repeatUntilValue
      ]_vars

\* Where the cursor stands after entering child from a node: the root for an
\* absent child or a reset child, the child otherwise.
CursorAfterEntering(child) ==
    IF child = Null THEN RootId
    ELSE IF NodeAt(child).type = "reset" THEN RootId
    ELSE child

\* C30: when a repeat_until visit ends, for any exit cause and whether the visit
\* gained or lost money, the cursor moves to the node's win child (the root when
\* that child is absent); the loss child is never entered from the node.
C30_RepeatLeavesByWinChild ==
    [][ (pc = "repeat" /\ pc' = "main") =>
            currentNode' = CursorAfterEntering(NodeAt(currentNode).children.win)
      ]_vars

\* A visit of two spins at the root lost both of them and the cursor stands at
\* the win child, which is not the root; the loss child is absent.
C30_Witness ==
    /\ rootNode.type = "repeat_until"
    /\ rootNode.children.win = 2 /\ rootNode.children.loss = Null
    /\ Len(steps) = 2
    /\ steps[1].net < 0 /\ steps[2].net < 0
    /\ steps[2].actionType.tag = "REPEAT_SPINS"
    /\ currentNode = 2 /\ pc = "main"

(***************************************************************************)
(* Returning to the root.                                                  *)
(***************************************************************************)
\* The step leaves a node by a child reference that is absent: the child the
\* recorded spin selects at a single-spin node, the child the result of the
\* sequence selects at a martingale node, the win child at a repeat_until node.
AbsentChildChosen ==
    LET node == NodeAt(currentNode)
    IN  \/ SingleSpinStep /\ pc' # "threw" /\ ChosenChild = Null
        \/ /\ pc = "mart" /\ pc' = "main"
           /\ (IF bankroll' >= sequenceStartBankroll THEN node.children.win
               ELSE node.children.loss) = Null
        \/ pc = "repeat" /\ pc' = "main" /\ node.children.win = Null

\* C31: for every node type (single-spin, martingale, repeat_until), when the
\* child selected for the next step is absent, the cursor becomes the tree root,
\* the base wagers become the root's wager list and the multiplier becomes 1,
\* whatever the multiplier was before.
C31_AbsentChildResetsToRoot ==
    [][ AbsentChildChosen =>
            /\ currentNode' = RootId
            /\ currentBaseBets' = rootNode.bets
            /\ currentMultiplier' = 1
      ]_vars

\* A martingale sequence at the root lost at x1 and won at x2, left with the
\* multiplier at 2 by its absent win child, and the cursor is at the root with
\* the multiplier at 1.
C31_Witness ==
    /\ rootNode.type = "martingale"
    /\ rootNode.children.win = Null
    /\ Len(steps) = 2
    /\ steps[2].actionType.x = 2 /\ steps[2].net > 0
    /\ steps[2].bankroll >= initialBankroll
    /\ pc = "main" /\ currentNode = RootId /\ currentMultiplier = 1
    /\ currentBaseBets = rootNode.bets

\* The child reference by which the step leaves the node under the cursor:
\* selected by the recorded spin at a single-spin node, by the result of the
\* sequence at a martingale node, the win child at a repeat_until node.
LeavesBy(child) ==
    LET node == NodeAt(currentNode)
    IN  \/ SingleSpinStep /\ pc' # "threw" /\ ChosenChild = child
        \/ /\ pc = "mart" /\ pc' # "mart"
           /\ (IF bankroll' >= sequenceStartBankroll THEN node.children.win
               ELSE node.children.loss) = child
        \/ pc = "repeat" /\ pc' \notin {"repeat", "threw"} /\ node.children.win = child

\* The step enters a reset node.
EntersReset ==
    \E child \in 1..Len(strategy.rootNode) :
        LeavesBy(child) /\ NodeAt(child).type = "reset"

\* C32: entering a reset node consumes no spin: no ledger entry is recorded for
\* it (the step records at most the spin of the node it leaves and the next
\* thing the run does is the root's turn of the main loop), the cursor becomes
\* the tree root, the base wagers become the root's wager list even if the
\* reset node carries wagers of its own, and the multiplier becomes 1.
C32_ResetRedirectsToRoot ==
    [][ EntersReset =>
            /\ spinsConsumed' <= spinsConsumed + 1
            /\ Len(steps') <= Len(steps) + 1
            /\ pc' = "main"
            /\ currentNode' = RootId
            /\ currentBaseBets' = rootNode.bets
            /\ currentMultiplier' = 1
      ]_vars

\* A winning spin at the root has entered a reset node that carries a wager
\* list of its own, different from the root's: one entry is in the ledger and
\* the cursor, base and multiplier are the root's.
C32_Witness ==
    /\ rootNode.children.win = 2
    /\ NodeAt(2).type = "reset"
    /\ Len(NodeAt(2).bets) > 0 /\ NodeAt(2).bets # rootNode.bets
    /\ Len(steps) = 1 /\ steps[1].won /\ spinsConsumed = 1
    /\ pc = "main" /\ currentNode = RootId
    /\ currentBaseBets = rootNode.bets /\ currentMultiplier = 1

(***************************************************************************)
(* The post-wait action of a wait_spins node.                              *)
(***************************************************************************)
\* The step ends the wait of the wait_spins node under the cursor: the wait
\* loop of an entered child, or the wait phase of the root before the main loop.
WaitSpinsOver ==
    /\ NodeAt(currentNode).type = "wait_spins"
    /\ pc \in {"wait", "presim"}
    /\ pc' = "main"

\* C33: after the N wait spins of a wait_spins node, the node's postWaitAction,
\* when set, is applied before the next wagering spin, for every wait_spins
\* node, the root included: double multiplies the multiplier by 2, triple by 3,
\* add_unit adds 1, subtract_unit subtracts 1 floored at 1, reset sets the
\* multiplier to 1 and reloads the root's wagers as base.
C33_PostWaitActionApplied ==
    [][ (WaitSpinsOver /\ NodeAt(currentNode).postWaitAction # "") =>
            LET action == NodeAt(currentNode).postWaitAction
            IN  IF action = "reset"
                THEN currentMultiplier' = 1 /\ currentBaseBets' = rootNode.bets
                ELSE currentMultiplier' = StatedModifier(action, currentMultiplier)
      ]_vars

(***************************************************************************)
(* Wait entries.                                                           *)
(***************************************************************************)
\* The step records a wait spin: an iteration of one of the wait loops.
WaitSpinStep ==
    /\ pc \in {"presim", "wait"}
    /\ Len(steps') = Len(steps) + 1

\* C34: every wait entry has an empty wager list and an empty outcome list,
\* betTotal = 0, payout = 0, net = 0, won = false and a bankroll equal to the
\* bankroll before it, carries a waiting action tag, and leaves wins, losses,
\* both current streaks, maxDrawdown and maxUpside unchanged.
C34_WaitEntry ==
    [][ WaitSpinStep =>
            /\ LastStep'.bets = <<>> /\ LastStep'.outcomes = <<>>
            /\ LastStep'.betTotal = 0 /\ LastStep'.payout = 0 /\ LastStep'.net = 0
            /\ LastStep'.won = FALSE
            /\ LastStep'.bankroll = bankroll /\ bankroll' = bankroll
            /\ IsWaitEntry(LastStep')
            /\ wins' = wins /\ losses' = losses
            /\ currentWinStreak' = currentWinStreak
            /\ currentLossStreak' = currentLossStreak
            /\ maxDrawdown' = maxDrawdown /\ maxUpside' = maxUpside
      ]_vars

\* A wait entry follows a winning wager: the win streak of 1 and the upside
\* the wager left are still there after the wait spin.
C34_Witness ==
    /\ Len(steps) = 2
    /\ steps[1].won /\ ~IsWaitEntry(steps[1])
    /\ IsWaitEntry(steps[2])
    /\ currentWinStreak = 1 /\ wins = 1 /\ maxUpside > 0
    /\ bankroll = steps[1].bankroll

(***************************************************************************)
(* Long martingale sequences: runs of up to CeilingMaxSpins spins on trees *)
(* of martingale nodes, with a bankroll and table maxima large enough for  *)
(* the multiplier to pass the safety ceiling.                              *)
(***************************************************************************)
CeilingMaxSpins == 15
CeilingBankroll == 40000
CeilingTableMaxes == {500, 20000}

\* An until_bankrupt martingale at the root whose loss child is a martingale
\* without wagers of its own, which inherits the base and the multiplier.
CeilingTree ==
    << Martingale(<<Red(1)>>, "until_bankrupt", 0, Null, 2),
       Martingale(<<>>, "until_bankrupt", 0, Null, Null) >>

CeilingInit ==
    /\ initialBankroll = CeilingBankroll
    /\ strategy = [rootNode |-> CeilingTree, stopLoss |-> 0, takeProfit |-> 0]
    /\ \E tm \in CeilingTableMaxes :
          config = [maxSpins |-> CeilingMaxSpins, tableMin |-> 1, tableMax |-> tm]
    /\ isStrategyComplete = checkStrategyComplete(strategy.rootNode)
    /\ viewMode = "simulation" /\ NoResults
    /\ StartOfRun

CeilingNext ==
    \/ PreSimEnd
    \/ Halt
    \/ MartingaleEnter
    \/ MartingaleAbandon
    \/ MartingaleSpin

CeilingSpec == CeilingInit /\ [][CeilingNext]_vars

\* The step records a spin of a martingale sequence.
MartingaleSpinStep == pc = "mart" /\ Len(steps') = Len(steps) + 1

\* The recorded spin lost and doubling the multiplier takes it past the ceiling.
CeilingHit == ~LastStep'.won /\ currentMultiplier * 2 > MultiplierCeiling

\* C35: the multiplier safety ceiling bounds every martingale wager: no spin of
\* a martingale sequence is placed with a multiplier above 10,000, whatever
\* multiplier the node inherited on entry, and when the ceiling is hit the
\* sequence exits and the run continues with the sequence's normal branch
\* selection instead of halting.
C35_CeilingBoundsEveryWager ==
    [][ MartingaleSpinStep =>
            /\ currentMultiplier <= MultiplierCeiling
            /\ CeilingHit =>
                  /\ pc' = "main"
                  /\ currentNode' = CursorAfterEntering(
                        IF bankroll' >= sequenceStartBankroll
                        THEN NodeAt(currentNode).children.win
                        ELSE NodeAt(currentNode).children.loss)
      ]_vars

(***************************************************************************)
(* The application around the engine: the page toggle, loading a saved     *)
(* strategy, the spins and runs inputs, and the Run Sim button, whose      *)
(* handler executeSimulationLogic calls runSimulation numSimulations       *)
(* times, one call after the other, and then sorts and stores the results. *)
(* pc = "idle" while no handler is running.                                *)
(***************************************************************************)
AppMaxSpins == 2
\* The numbers of runs asked for in the runs input.
SimulationCounts == {1, 2}
DefaultMaxSpins == 50
DefaultStartBankroll == 1000
DefaultTakeProfit == 2000
DefaultTableMin == 3
DefaultTableMax == 1000

\* The root the application starts with: start_immediately, bets: [], no children.
DefaultRoot == << WithBets("start_immediately", <<>>, Null, Null) >>

\* Strategy files that can be loaded: a tree with both branches of every node
\* set, and one with an open root.
SavedTrees ==
    { << WithBets("start_immediately", <<Red(5)>>, RootId, 2),
         NoBets("double", RootId, RootId) >>,
      << WithBets("custom_bet", <<Red(5)>>, Null, Null) >> }

SavedStrategies ==
    { [rootNode |-> t,
       config |-> [startBankroll |-> b, tableMin |-> 1, tableMax |-> 500,
                   maxSpins |-> AppMaxSpins, stopLoss |-> 0, takeProfit |-> 0]] :
      t \in SavedTrees, b \in {12} }

AppInit ==
    /\ initialBankroll = DefaultStartBankroll
    /\ strategy = [rootNode |-> DefaultRoot, stopLoss |-> 0, takeProfit |-> DefaultTakeProfit]
    /\ config = [maxSpins |-> DefaultMaxSpins, tableMin |-> DefaultTableMin,
                 tableMax |-> DefaultTableMax]
    /\ isStrategyComplete = FALSE
    /\ viewMode = "builder" /\ NoResults
    /\ bankroll = 0 /\ steps = <<>> /\ spinsConsumed = 0
    /\ currentNode = RootId /\ currentBaseBets = <<>> /\ currentMultiplier = 1
    /\ wins = 0 /\ losses = 0 /\ maxDrawdown = 0 /\ maxUpside = 0
    /\ currentWinStreak = 0 /\ currentLossStreak = 0
    /\ longestWinStreak = 0 /\ longestLossStreak = 0
    /\ martingaleStepCount = 0 /\ sequenceStartBankroll = 0
    /\ loopSpins = 0 /\ loopWins = 0 /\ seqStartBankroll = 0
    /\ w = 0 /\ conditionMet = FALSE /\ k = 0
    /\ pc = "idle"
    /\ stats = NoStats
    /\ haltStats = <<>>

runVars == <<ledgerVars, cursorVars, martVars, repeatVars, waitVars, stats>>

\* handleLoadStrategy, with the effect that recomputes isStrategyComplete for
\* the new rootNode.
LoadStrategy ==
    /\ pc = "idle"
    /\ \E data \in SavedStrategies :
          /\ initialBankroll' = data.config.startBankroll
          /\ strategy' = [rootNode |-> data.rootNode, stopLoss |-> data.config.stopLoss,
                          takeProfit |-> data.config.takeProfit]
          /\ config' = [maxSpins |-> data.config.maxSpins, tableMin |-> data.config.tableMin,
                        tableMax |-> data.config.tableMax]
          /\ isStrategyComplete' = checkStrategyComplete(data.rootNode)
    /\ UNCHANGED <<appVars, runVars, pc>>

\* The spins input: setMaxSpins(Number(e.target.value)), the value typed being
\* AppMaxSpins.
SetMaxSpins ==
    /\ pc = "idle"
    /\ config' = [config EXCEPT !.maxSpins = AppMaxSpins]
    /\ UNCHANGED <<initialBankroll, strategy, isStrategyComplete, appVars, runVars, pc>>

\* The runs input: setNumSimulations(Math.min(100, Math.max(1, Number(...)))).
SetNumSimulations ==
    /\ pc = "idle"
    /\ \E n \in SimulationCounts : numSimulations' = n
    /\ UNCHANGED <<initialBankroll, strategy, config, isStrategyComplete, viewMode,
                   allResults, allSimResults, currentResultIndex, runVars, pc>>

\* The global view toggle button: handleGoToSimulation from the builder,
\* setViewMode('builder') from the simulation page.
ToggleView ==
    /\ pc = "idle"
    /\ IF viewMode = "builder"
       THEN viewMode' = "simulation" /\ allSimResults' = <<>>
       ELSE viewMode' = "builder" /\ allSimResults' = allSimResults
    /\ UNCHANGED <<initialBankroll, strategy, config, isStrategyComplete, numSimulations,
                   allResults, currentResultIndex, runVars, pc>>


\* return { steps, stats }
RunResult == [steps |-> steps, stats |-> stats]

\* Faulty variant of NextRun: the multiplier is a variable the runs share, so
\* a run starts with what the run before it left.
NextRunOnSharedMultiplier ==
    /\ bankroll' = initialBankroll
    /\ steps' = <<>>
    /\ currentNode' = RootId
    /\ currentBaseBets' = RootBets
    /\ currentMultiplier' = currentMultiplier
    /\ spinsConsumed' = 0
    /\ wins' = 0 /\ losses' = 0 /\ maxDrawdown' = 0 /\ maxUpside' = 0
    /\ currentWinStreak' = 0 /\ currentLossStreak' = 0
    /\ longestWinStreak' = 0 /\ longestLossStreak' = 0
    /\ martingaleStepCount' = 0 /\ sequenceStartBankroll' = 0
    /\ loopSpins' = 0 /\ loopWins' = 0 /\ seqStartBankroll' = 0
    /\ w' = 0 /\ conditionMet' = FALSE /\ k' = 0
    /\ pc' = "presim"
    /\ stats' = NoStats
    /\ haltStats' = <<>>

\* runSimulation(startBankroll, strategy, config): the call sets up the state
\* of a run of its own.
NextRun ==
    /\ bankroll' = initialBankroll
    /\ steps' = <<>>
    /\ currentNode' = RootId
    /\ currentBaseBets' = RootBets
    /\ currentMultiplier' = 1
    /\ spinsConsumed' = 0
    /\ wins' = 0 /\ losses' = 0 /\ maxDrawdown' = 0 /\ maxUpside' = 0
    /\ currentWinStreak' = 0 /\ currentLossStreak' = 0
    /\ longestWinStreak' = 0 /\ longestLossStreak' = 0
    /\ martingaleStepCount' = 0 /\ sequenceStartBankroll' = 0
    /\ loopSpins' = 0 /\ loopWins' = 0 /\ seqStartBankroll' = 0
    /\ w' = 0 /\ conditionMet' = FALSE /\ k' = 0
    /\ pc' = "presim"
    /\ stats' = NoStats
    /\ haltStats' = <<>>

\* The Run Sim button: executeSimulationLogic up to its first call of
\* runSimulation.  Runs longer than AppMaxSpins are not explored.
RunSim ==
    /\ pc = "idle"
    /\ viewMode = "simulation"
    /\ config.maxSpins <= AppMaxSpins
    /\ UNCHANGED <<initialBankroll, strategy, config, isStrategyComplete, viewMode,
                   numSimulations, allSimResults, currentResultIndex>>
    /\ allResults' = <<>>
    /\ NextRun

\* allResults.sort((a, b) => a.stats.finalBankroll - b.stats.finalBankroll):
\* r goes behind the results whose final bankroll is not larger.
RECURSIVE InsertResult(_, _)
InsertResult(sorted, r) ==
    IF sorted = <<>> THEN <<r>>
    ELSE IF sorted[1].stats.finalBankroll <= r.stats.finalBankroll
    THEN <<sorted[1]>> \o InsertResult(Tail(sorted), r)
    ELSE <<r>> \o sorted

RECURSIVE SortResults(_)
SortResults(results) ==
    IF results = <<>> THEN <<>>
    ELSE InsertResult(SortResults(SubSeq(results, 1, Len(results) - 1)),
                      results[Len(results)])

\* A call of runSimulation has returned: allResults.push(...), then the next
\* call, or after the last one the sort, setAllSimResults and the median index.
\* The handler ends with setIsPlaying / setPlaybackIndex, which are not kept.
CollectResult ==
    /\ pc = "done"
    /\ UNCHANGED <<initialBankroll, strategy, config, isStrategyComplete, viewMode,
                   numSimulations>>
    /\ \E results \in {Append(allResults, RunResult)} :
          IF Len(results) < numSimulations
          THEN /\ allResults' = results
               /\ NextRun
               /\ UNCHANGED <<allSimResults, currentResultIndex>>
          ELSE /\ allResults' = <<>>
               /\ allSimResults' = SortResults(results)
               /\ currentResultIndex' = Len(results) \div 2
               /\ pc' = "idle"
               /\ UNCHANGED runVars

AppNext ==
    \/ LoadStrategy
    \/ SetMaxSpins
    \/ SetNumSimulations
    \/ ToggleView
    \/ RunSim
    \/ CollectResult
    \/ PreSimEnd
    \/ Halt
    \/ SingleBreak
    \/ SingleSpin

AppSpec == AppInit /\ [][AppNext]_vars

\* The step is the Run Sim handler's call of runSimulation.
RunSimCallsEngine == pc = "idle" /\ pc' = "presim"

\* C36: a run is permitted only on a validated tree: in every reachable state
\* of the application, the Run Sim action calls runSimulation only when the
\* current strategy tree passes checkStrategyComplete, so an invalid node
\* configuration is never reached during a simulation.
C36_RunOnlyOnValidatedTree ==
    [][ RunSimCallsEngine => checkStrategyComplete(strategy.rootNode) ]_vars


\* The spin outcomes a returned run was played on.
OutcomesOf(run) == [i \in 1..Len(run.steps) |-> run.steps[i].result]

\* Returned runs of one Run Sim click that were played on the same spin
\* outcomes have the same ledger and the same stats.
SameOutcomesSameRun(results) ==
    \A i, j \in 1..Len(results) :
        OutcomesOf(results[i]) = OutcomesOf(results[j]) => results[i] = results[j]

TreeAmountsPositive ==
    \A id \in 1..Len(strategy.rootNode) :
        \A j \in 1..Len(NodeAt(id).bets) :
            NodeAt(id).bets[j].amount \in Int /\ NodeAt(id).bets[j].amount >= 1

====
